---- MODULE Spec2Model ----
(***************************************************************************)
(* Model of the playlist route of spotify-itunes-linker                    *)
(* (src/app/api/playlist/route.ts): the POST handler, the link resolver    *)
(* (expandSpotifyUrl, parseIdFromUrlOrUri, parseIdViaOEmbed), the track    *)
(* enumerator (fetchAllTracks) and the per-track store lookups.            *)
(*                                                                         *)
(* Strings are sequences of symbols.  A symbol stands for a literal chunk  *)
(* of characters ("playlist", "ABC123", "/", "https://", ...).  A symbol   *)
(* of Alnum consists of characters [A-Za-z0-9] only; every other symbol    *)
(* begins with a character outside [A-Za-z0-9], so a maximal run of Alnum  *)
(* symbols is a maximal run of alphanumeric characters.                    *)
(***************************************************************************)
EXTENDS Integers, Sequences, FiniteSets, TLC

(* ------------------------------ bounds --------------------------------- *)
\* most tracks of a playlist in the specification of the whole request
MaxTracks == 3
\* items per page there (the limit=100 of SPOTIFY_PLAYLIST_API, scaled down)
PageLimit == 2
\* most items and most pages of a playlist in the enumerator specification
EnumMaxItems == 2
EnumMaxPages == 2
\* longest path (in symbols) of an input URL in the resolver specification
MaxPathLen == 6
\* longest tail (in symbols) after the spotify:playlist: prefix of an input
MaxUriTail == 5
\* most fragments of an HTML body (short-link landing page, oEmbed html)
MaxHtml == 2
\* pieces in a raw title
MaxChunks == 5
\* words in a title or in an artist's name given to the scorer
MaxWords == 2
\* track URLs in a Bandcamp search page
MaxMatches == 3
\* results in an iTunes search response
MaxResults == 3
\* requests one POST issues before the model stops following it
MaxCalls == 6
\* runs of handleGenerate and calls of openApple the model follows
MaxRuns == 2
MaxClicks == 2

(* ------------------------------ strings -------------------------------- *)
EmptyString == <<>>

\* the characters [a-zA-Z0-9] of the regular expressions, as symbols
Alnum == {"ABC123", "xyz", "playlist", "PlayList", "album"}

\* the symbols that the case-insensitive literal "playlist" matches
PlaylistWord == {"playlist", "PlayList"}

\* the symbols that the case-insensitive literal "spotify:playlist:" matches
UriPrefix == {"spotify:playlist:", "Spotify:Playlist:"}

SeqsUpTo(S, n) == UNION {[1..k -> S] : k \in 0..n}

\* the maximal run of Alnum symbols of s that starts at position i: the
\* capture group ([a-zA-Z0-9]+) of a match whose group starts at i
RECURSIVE AlnumRun(_, _)
AlnumRun(s, i) ==
    IF i > Len(s) \/ s[i] \notin Alnum THEN <<>>
    ELSE <<s[i]>> \o AlnumRun(s, i + 1)

(* ------------------------------- URLs ----------------------------------- *)
\* host names as they may be written in an input
HostSyms == {"open.spotify.com", "example.com", "spoti.fi", "WWW.Spoti.Fi",
             "www.spoti.fi", "www.spotify.link", "www.www.spoti.fi"}

\* String.prototype.toLowerCase on a host name (the URL parser lower-cases too)
ToLowerHost(h) == IF h = "WWW.Spoti.Fi" THEN "www.spoti.fi" ELSE h

\* host.replace(/^www\./, "")
StripWww(h) ==
    CASE h = "www.spoti.fi" -> "spoti.fi"
      [] h = "www.spotify.link" -> "spotify.link"
      [] h = "www.www.spoti.fi" -> "www.spoti.fi"
      [] OTHER -> h

QuerySyms == {"?si=xyz"}

\* the position of the first query symbol of s at or after i, else Len(s) + 1
RECURSIVE QueryStart(_, _)
QueryStart(s, i) ==
    IF i > Len(s) \/ s[i] \in QuerySyms THEN i ELSE QueryStart(s, i + 1)

NoUrl == [ok |-> FALSE, hostname |-> "", pathname |-> <<>>]

\* new URL(s): fails (throws) unless s starts with a scheme; an https URL has a
\* host and a path that is "/" when absent; a spotify: URI has an empty host
\* and everything after the scheme as its path; the query is not in pathname
URLParse(s) ==
    IF Len(s) >= 2 /\ s[1] = "https://" /\ s[2] \in HostSyms
       /\ (Len(s) = 2 \/ s[3] = "/" \/ s[3] \in QuerySyms)
    THEN LET q == QueryStart(s, 3)
             p == SubSeq(s, 3, q - 1)
         IN [ok |-> TRUE, hostname |-> ToLowerHost(s[2]),
             pathname |-> IF p = <<>> THEN <<"/">> ELSE p]
    ELSE IF Len(s) >= 1 /\ s[1] \in UriPrefix
    THEN [ok |-> TRUE, hostname |-> "",
          pathname |-> <<"playlist:">> \o SubSeq(s, 2, QueryStart(s, 2) - 1)]
    ELSE NoUrl

\* parsed.toString() of an https URL that parses: the host in lower case and
\* "/" for an absent path
URLToString(s) ==
    LET q == QueryStart(s, 3)
    IN <<s[1], ToLowerHost(s[2])>>
       \o (IF q = 3 THEN <<"/">> ELSE <<>>)
       \o SubSeq(s, 3, Len(s))

(* --------------------------- expandSpotifyUrl --------------------------- *)
SHORT_HOSTS == {"spotify.link", "www.spotify.link", "spoti.fi",
                "link.tospotify.com", "spotify.app.link"}

\* /^spotify:playlist:[a-z0-9]+$/i.test(s)
IsNativeUri(s) ==
    /\ Len(s) >= 2
    /\ s[1] \in UriPrefix
    /\ \A i \in 2..Len(s) : s[i] \in Alnum

\* host is on the allow-list, as written or with a leading "www." removed
IsShortHost(host) == host \in SHORT_HOSTS \/ StripWww(host) \in SHORT_HOSTS

\* TRUE iff expandSpotifyUrl(s) goes on to fetch s (lines 19-25 all fall through)
NeedsExpansion(s) ==
    /\ ~IsNativeUri(s)
    /\ URLParse(s).ok
    /\ IsShortHost(URLParse(s).hostname)

\* A fragment of a landing page: kind "bare" is an open.spotify.com URL in
\* running text or an attribute, "meta" a meta-refresh content="0;url=<url>",
\* "js" a window.location.href = "<url>" literal, "metaWs" a meta-refresh whose
\* URL has white space right after "open.spotify.com/", "text" anything else.
FragKinds == {"bare", "meta", "js", "metaWs", "text"}

\* html.match(/https?:\/\/open\.spotify\.com\/[^\s"'<>]+/i): the leftmost
\* fragment holding such a URL; a meta or js fragment holds one too, a metaWs
\* fragment does not (the class [^\s"'<>]+ needs one non-space character)
RECURSIVE MatchBare(_, _)
MatchBare(html, i) ==
    IF i > Len(html) THEN <<>>
    ELSE IF html[i].kind \in {"bare", "meta", "js"} THEN html[i].url
    ELSE MatchBare(html, i + 1)

\* html.match(/content=["'][^"']*url=(https?:\/\/open\.spotify\.com\/[^"']+)/i):
\* group 1 of the leftmost meta-refresh fragment
RECURSIVE MatchMeta(_, _)
MatchMeta(html, i) ==
    IF i > Len(html) THEN <<>>
    ELSE IF html[i].kind \in {"meta", "metaWs"} THEN html[i].url
    ELSE MatchMeta(html, i + 1)

\* the two patterns of lines 43-44 tried in the other order
ScanHtmlMetaFirst(html, input) ==
    LET bare == MatchBare(html, 1)
        meta == MatchMeta(html, 1)
    IN IF meta # <<>> THEN meta
       ELSE IF bare # <<>> THEN bare
       ELSE input

\* lines 41-47: m = bare || meta; m[1] (meta's group) else m[0], else input
ScanHtml(html, input) ==
    LET bare == MatchBare(html, 1)
        meta == MatchMeta(html, 1)
    IN IF bare # <<>> THEN bare
       ELSE IF meta # <<>> THEN meta
       ELSE input

\* how an async function ends: it returns value, or it raises
Returns(value) == [raised |-> FALSE, value |-> value]
Raises == [raised |-> TRUE, value |-> <<>>]

\* lines 27-50 without the catch of line 48
expandSpotifyUrlNoCatch(r, input) ==
    IF r.threw THEN Raises
    ELSE IF r.url # <<>> THEN Returns(r.url)
    ELSE Returns(ScanHtml(r.html, input))

\* lines 27-50 on a settled fetch: r.threw (fetch rejected, caught at line
\* 48), else r.url (Response.url, "" when unset) and r.html (res.text(), ""
\* when it rejects)
expandSpotifyUrl(r, input) ==
    IF r.threw THEN Returns(input)
    ELSE IF r.url # <<>> THEN Returns(r.url)
    ELSE Returns(ScanHtml(r.html, input))

(* -------------------------- parseIdFromUrlOrUri ------------------------- *)
\* url.pathname.match(/\/playlist\/([a-zA-Z0-9]+)/i): group 1 of the leftmost
\* match at or after position i, <<>> when there is none
RECURSIVE MatchPlaylistPath(_, _)
MatchPlaylistPath(p, i) ==
    IF i + 3 > Len(p) THEN <<>>
    ELSE IF /\ p[i] = "/"
            /\ p[i + 1] \in PlaylistWord
            /\ p[i + 2] = "/"
            /\ p[i + 3] \in Alnum
    THEN AlnumRun(p, i + 3)
    ELSE MatchPlaylistPath(p, i + 1)

\* parseIdFromUrlOrUri(s): [ok |-> TRUE, id |-> ...] or a thrown Error
ParseThrew(msg) == [ok |-> FALSE, id |-> <<>>, error |-> msg]
ParseOk(id) == [ok |-> TRUE, id |-> id, error |-> ""]

\* lines 55-56 left out: only the URL path is searched
parseIdFromUrlOnly(s) ==
    IF ~URLParse(s).ok THEN ParseThrew("Invalid URL")
    ELSE LET m == MatchPlaylistPath(URLParse(s).pathname, 1)
         IN IF m # <<>> THEN ParseOk(m)
            ELSE ParseThrew("Could not parse playlist ID")

\* line 59 returning its input instead of throwing
parseIdPassthrough(s) ==
    IF Len(s) >= 2 /\ s[1] \in UriPrefix /\ s[2] \in Alnum
    THEN ParseOk(AlnumRun(s, 2))
    ELSE IF ~URLParse(s).ok THEN ParseOk(s)
    ELSE LET m == MatchPlaylistPath(URLParse(s).pathname, 1)
         IN IF m # <<>> THEN ParseOk(m)
            ELSE ParseThrew("Could not parse playlist ID")

parseIdFromUrlOrUri(s) ==
    IF Len(s) >= 2 /\ s[1] \in UriPrefix /\ s[2] \in Alnum
    THEN ParseOk(AlnumRun(s, 2))
    ELSE IF ~URLParse(s).ok THEN ParseThrew("Invalid URL")
    ELSE LET m == MatchPlaylistPath(URLParse(s).pathname, 1)
         IN IF m # <<>> THEN ParseOk(m)
            ELSE ParseThrew("Could not parse playlist ID")

(* ---------------------------- parseIdViaOEmbed -------------------------- *)
\* A fragment of the oEmbed html: kind "embed" is "/embed/playlist/" followed
\* by tok, kind "uri" is "spotify:playlist:" followed by tok, "text" the rest.
OFragKinds == {"embed", "uri", "text"}

\* html.match(<literal>([a-zA-Z0-9]+)) for the literal of `kind`: group 1 of
\* the leftmost fragment of that kind that an alphanumeric character follows
RECURSIVE MatchFrag(_, _, _)
MatchFrag(html, kind, i) ==
    IF i > Len(html) THEN <<>>
    ELSE IF html[i].kind = kind /\ AlnumRun(html[i].tok, 1) # <<>>
    THEN AlnumRun(html[i].tok, 1)
    ELSE MatchFrag(html, kind, i + 1)

\* lines 80-85 with the two patterns tried in the other order
parseIdViaOEmbedUriFirst(r) ==
    IF r.threw \/ ~r.ok THEN <<>>
    ELSE LET m1 == MatchFrag(r.html, "embed", 1)
             m2 == MatchFrag(r.html, "uri", 1)
         IN IF m2 # <<>> THEN m2
            ELSE IF m1 # <<>> THEN m1
            ELSE <<>>

\* parseIdViaOEmbed on a settled probe: r.threw (fetch or json() rejected),
\* r.ok (HTTP success), r.html (data?.html ?? ""); <<>> stands for null
parseIdViaOEmbed(r) ==
    IF r.threw \/ ~r.ok THEN <<>>
    ELSE LET m1 == MatchFrag(r.html, "embed", 1)
             m2 == MatchFrag(r.html, "uri", 1)
         IN IF m1 # <<>> THEN m1
            ELSE IF m2 # <<>> THEN m2
            ELSE <<>>

(* ------------------------- character strings --------------------------- *)
\* Titles, artist names and store URLs are sequences of single characters.
UpperChars == <<"A","B","C","D","E","F","G","H","I","J","K","L","M",
                "N","O","P","Q","R","S","T","U","V","W","X","Y","Z">>
LowerChars == <<"a","b","c","d","e","f","g","h","i","j","k","l","m",
                "n","o","p","q","r","s","t","u","v","w","x","y","z">>
DigitChars == {"0","1","2","3","4","5","6","7","8","9"}

Range(f) == {f[i] : i \in DOMAIN f}

ToLowerChar(c) ==
    IF c \in Range(UpperChars)
    THEN LowerChars[CHOOSE i \in 1..26 : UpperChars[i] = c]
    ELSE c

\* String.prototype.toLowerCase
ToLowerCase(s) == [i \in 1..Len(s) |-> ToLowerChar(s[i])]

\* String.prototype.includes
Includes(s, t) ==
    \E i \in 0..(Len(s) - Len(t)) : SubSeq(s, i + 1, i + Len(t)) = t

\* \w of a regular expression
IsWordChar(c) ==
    c \in Range(UpperChars) \cup Range(LowerChars) \cup DigitChars \cup {"_"}

\* \s of a regular expression
IsSpace(c) == c = " "

\* \b between positions i - 1 and i of s
IsBoundary(s, i) ==
    LET before == i > 1 /\ i - 1 <= Len(s) /\ IsWordChar(s[i - 1])
        after == i >= 1 /\ i <= Len(s) /\ IsWordChar(s[i])
    IN before # after

\* s has the literal w at position i, compared case-insensitively
HasAtNoCase(s, i, w) ==
    /\ i >= 1
    /\ i + Len(w) - 1 <= Len(s)
    /\ ToLowerCase(SubSeq(s, i, i + Len(w) - 1)) = w

RECURSIVE Join(_, _)
\* Array.prototype.join
Join(parts, sep) ==
    IF parts = <<>> THEN <<>>
    ELSE IF Len(parts) = 1 THEN parts[1]
    ELSE parts[1] \o sep \o Join(Tail(parts), sep)

\* String.prototype.trim and the collapse of white-space runs
RECURSIVE CollapseSpaces(_)
CollapseSpaces(s) ==
    IF s = <<>> THEN <<>>
    ELSE IF IsSpace(s[1]) /\ Len(s) >= 2 /\ IsSpace(s[2])
    THEN CollapseSpaces(Tail(s))
    ELSE <<s[1]>> \o CollapseSpaces(Tail(s))

RECURSIVE TrimLeft(_)
TrimLeft(s) == IF s # <<>> /\ IsSpace(s[1]) THEN TrimLeft(Tail(s)) ELSE s

RECURSIVE TrimRight(_)
TrimRight(s) ==
    IF s # <<>> /\ IsSpace(s[Len(s)])
    THEN TrimRight(SubSeq(s, 1, Len(s) - 1))
    ELSE s

Trim(s) == TrimRight(TrimLeft(s))

(* ----------------------- cleanTrackTitleForSearch ----------------------- *)
\* the position of the first ")" or "]" of s at or after i, 0 if none
RECURSIVE FirstCloser(_, _)
FirstCloser(s, i) ==
    IF i > Len(s) THEN 0
    ELSE IF s[i] \in {")", "]"} THEN i
    ELSE FirstCloser(s, i + 1)

\* t.replace(/[\(\[][^)\]]*[\)\]]/g, " "), scanning from position i
RECURSIVE DropBracketed(_, _)
DropBracketed(s, i) ==
    IF i > Len(s) THEN <<>>
    ELSE IF s[i] \in {"(", "["} /\ FirstCloser(s, i + 1) # 0
    THEN <<" ">> \o DropBracketed(s, FirstCloser(s, i + 1) + 1)
    ELSE <<s[i]>> \o DropBracketed(s, i + 1)

\* t.replace(/\s-\s.*$/i, " "), scanning from position i
RECURSIVE CutAtDash(_, _)
CutAtDash(s, i) ==
    IF i > Len(s) THEN <<>>
    ELSE IF /\ i + 2 <= Len(s)
            /\ IsSpace(s[i]) /\ s[i + 1] = "-" /\ IsSpace(s[i + 2])
    THEN <<" ">>
    ELSE <<s[i]>> \o CutAtDash(s, i + 1)

\* (20\d{2}|19\d{2}) matches at position i of s, with \b on both sides
IsYearAt(s, i) ==
    /\ i + 3 <= Len(s)
    /\ \/ s[i] = "2" /\ s[i + 1] = "0"
       \/ s[i] = "1" /\ s[i + 1] = "9"
    /\ s[i + 2] \in DigitChars
    /\ s[i + 3] \in DigitChars
    /\ IsBoundary(s, i)
    /\ IsBoundary(s, i + 4)

\* t.replace(/\b(20\d{2}|19\d{2})\b/g, " "), scanning from position i
RECURSIVE DropYears(_, _)
DropYears(s, i) ==
    IF i > Len(s) THEN <<>>
    ELSE IF IsYearAt(s, i) THEN <<" ">> \o DropYears(s, i + 4)
    ELSE <<s[i]>> \o DropYears(s, i + 1)

NoiseWords ==
    { <<"r","e","m","a","s","t","e","r">>,
      <<"r","e","m","a","s","t","e","r","e","d">>,
      <<"r","e","m","i","x">>, <<"l","i","v","e">>, <<"m","o","n","o">>,
      <<"s","t","e","r","e","o">>, <<"e","d","i","t">>,
      <<"v","e","r","s","i","o","n">>, <<"d","e","l","u","x","e">>,
      <<"s","p","a","t","i","a","l">>, <<"a","t","m","o","s">> }

\* \b(remaster(ed)?|remix|...|atmos)\b matches at position i of s
IsNoiseAt(s, i) ==
    /\ IsBoundary(s, i)
    /\ \E w \in NoiseWords : HasAtNoCase(s, i, w) /\ IsBoundary(s, i + Len(w))

\* t.replace(/\b(remaster(ed)?|...|atmos)\b.*$/i, " "), scanning from i
RECURSIVE CutAtNoise(_, _)
CutAtNoise(s, i) ==
    IF i > Len(s) THEN <<>>
    ELSE IF IsNoiseAt(s, i) THEN <<" ">>
    ELSE <<s[i]>> \o CutAtNoise(s, i + 1)

cleanTrackTitleForSearch(raw) ==
    LET t1 == DropBracketed(raw, 1)
        t2 == CutAtDash(t1, 1)
        t3 == DropYears(t2, 1)
        t4 == CutAtNoise(t3, 1)
    IN Trim(CollapseSpaces(t4))

(* ---------------------------- similarityScore --------------------------- *)
\* s.split(/\s+/).filter(Boolean), with cur the token being read
RECURSIVE SplitSpaces(_, _)
SplitSpaces(s, cur) ==
    IF s = <<>> THEN (IF cur = <<>> THEN <<>> ELSE <<cur>>)
    ELSE IF IsSpace(s[1])
    THEN (IF cur = <<>> THEN <<>> ELSE <<cur>>) \o SplitSpaces(Tail(s), <<>>)
    ELSE SplitSpaces(Tail(s), Append(cur, s[1]))

\* .replace(/[‘’']/g, "").replace(/[^a-z0-9\s-]/g, " ")
RECURSIVE StripPunctuation(_)
StripPunctuation(s) ==
    IF s = <<>> THEN <<>>
    ELSE IF s[1] = "'" THEN StripPunctuation(Tail(s))
    ELSE IF s[1] \in Range(LowerChars) \cup DigitChars \cup {" ", "-"}
    THEN <<s[1]>> \o StripPunctuation(Tail(s))
    ELSE <<" ">> \o StripPunctuation(Tail(s))

normalizeTokens(s) == SplitSpaces(StripPunctuation(ToLowerCase(s)), <<>>)

\* artist.split(",")[0]
RECURSIVE BeforeComma(_)
BeforeComma(s) ==
    IF s = <<>> \/ s[1] = "," THEN <<>>
    ELSE <<s[1]>> \o BeforeComma(Tail(s))

\* the number of tokens of toks that u includes
RECURSIVE CountIncluded(_, _)
CountIncluded(toks, u) ==
    IF toks = <<>> THEN 0
    ELSE (IF Includes(u, toks[1]) THEN 1 ELSE 0) + CountIncluded(Tail(toks), u)

BannedWords ==
    { <<"r","e","m","i","x">>, <<"m","i","x">>, <<"c","o","v","e","r">>,
      <<"t","r","i","b","u","t","e">>, <<"e","d","i","t">>,
      <<"k","a","r","a","o","k","e">> }

LiveWords == { <<"l","i","v","e">>, <<"c","o","n","c","e","r","t">> }

BandcampHost == <<".","b","a","n","d","c","a","m","p",".","c","o","m">>
TrackPath == <<"/","t","r","a","c","k","/">>
HttpsScheme == <<"h","t","t","p","s",":","/","/">>

\* line 162 left out: no bonus for the artist's own subdomain
similarityScoreNoSlugBonus(title, artist, url) ==
    LET u == ToLowerCase(url)
        aTokens == normalizeTokens(BeforeComma(artist))
        tTokens == normalizeTokens(title)
    IN 2 * CountIncluded(aTokens, u)
       + CountIncluded(tTokens, u)
       - (IF \E w \in BannedWords : Includes(u, w) THEN 3 ELSE 0)
       - (IF \E w \in LiveWords : Includes(u, w) THEN 1 ELSE 0)
       + (IF Includes(u, BandcampHost \o TrackPath) THEN 2 ELSE 0)

\* line 157 left out: no penalty for remix, mix, cover, tribute, edit, karaoke
similarityScoreNoPenalty(title, artist, url) ==
    LET u == ToLowerCase(url)
        aTokens == normalizeTokens(BeforeComma(artist))
        tTokens == normalizeTokens(title)
        artistSlug == Join(aTokens, <<"-">>)
    IN 2 * CountIncluded(aTokens, u)
       + CountIncluded(tTokens, u)
       - (IF \E w \in LiveWords : Includes(u, w) THEN 1 ELSE 0)
       + (IF Includes(u, BandcampHost \o TrackPath) THEN 2 ELSE 0)
       + (IF artistSlug # <<>> /\ Includes(u, artistSlug \o BandcampHost)
          THEN 3 ELSE 0)

similarityScore(title, artist, url) ==
    LET u == ToLowerCase(url)
        aTokens == normalizeTokens(BeforeComma(artist))
        tTokens == normalizeTokens(title)
        artistSlug == Join(aTokens, <<"-">>)
    IN 2 * CountIncluded(aTokens, u)
       + CountIncluded(tTokens, u)
       - (IF \E w \in BannedWords : Includes(u, w) THEN 3 ELSE 0)
       - (IF \E w \in LiveWords : Includes(u, w) THEN 1 ELSE 0)
       + (IF Includes(u, BandcampHost \o TrackPath) THEN 2 ELSE 0)
       + (IF artistSlug # <<>> /\ Includes(u, artistSlug \o BandcampHost)
          THEN 3 ELSE 0)

(* ----------------------------- searchBandcamp --------------------------- *)
Threshold == 6

\* encodeURIComponent on the characters the model uses
EncodeChar(c) ==
    CASE c = " " -> <<"%","2","0">>
      [] c = "," -> <<"%","2","C">>
      [] c = "[" -> <<"%","5","B">>
      [] c = "]" -> <<"%","5","D">>
      [] c = "/" -> <<"%","2","F">>
      [] OTHER -> <<c>>

RECURSIVE encodeURIComponent(_)
encodeURIComponent(s) ==
    IF s = <<>> THEN <<>>
    ELSE EncodeChar(s[1]) \o encodeURIComponent(Tail(s))

\* lines 166-168: the search URL of a track
BandcampSearchUrl(titleRaw, artist) ==
    LET title == cleanTrackTitleForSearch(titleRaw)
        query == Trim(artist \o <<" ">> \o title)
    IN <<"https://bandcamp.com/search?q=">> \o encodeURIComponent(query)
       \o <<"&item_type=t">>

\* Array.from(new Set(xs)): first occurrences, in order
RECURSIVE Dedup(_, _)
Dedup(xs, seen) ==
    IF xs = <<>> THEN <<>>
    ELSE IF xs[1] \in seen THEN Dedup(Tail(xs), seen)
    ELSE <<xs[1]>> \o Dedup(Tail(xs), seen \cup {xs[1]})

\* line 183 with >= for >: the latest of the best matches is kept
RECURSIVE BestMatchLastTie(_, _, _, _, _)
BestMatchLastTie(matches, i, title, artist, best) ==
    IF i > Len(matches) THEN best
    ELSE LET sc == similarityScore(title, artist, matches[i])
         IN BestMatchLastTie(matches, i + 1, title, artist,
                             IF sc >= best.score
                             THEN [url |-> matches[i], score |-> sc]
                             ELSE best)

\* lines 179-184: the loop over matches from position i, carrying best/bestScore
RECURSIVE BestMatch(_, _, _, _, _)
BestMatch(matches, i, title, artist, best) ==
    IF i > Len(matches) THEN best
    ELSE LET sc == similarityScore(title, artist, matches[i])
         IN BestMatch(matches, i + 1, title, artist,
                      IF sc > best.score
                      THEN [url |-> matches[i], score |-> sc]
                      ELSE best)

\* searchBandcamp without the catch of line 187: a rejected fetch leaves no
\* result
searchBandcampNoCatch(titleRaw, artist, r) ==
    LET title == cleanTrackTitleForSearch(titleRaw)
        searchUrl == BandcampSearchUrl(titleRaw, artist)
        matches == Dedup(r.urls, {})
        best == BestMatch(matches, 1, title, artist,
                          [url |-> matches[1], score |-> -999])
    IN IF r.threw THEN [direct |-> <<>>, search |-> <<>>]
       ELSE IF ~r.ok \/ matches = <<>>
       THEN [direct |-> <<>>, search |-> searchUrl]
       ELSE IF best.score >= Threshold
       THEN [direct |-> best.url, search |-> searchUrl]
       ELSE [direct |-> <<>>, search |-> searchUrl]

\* searchBandcamp on a settled fetch: r.threw (fetch or res.text() rejected),
\* r.ok (HTTP success), r.urls (html.match(rx) ?? []); <<>> stands for null
searchBandcamp(titleRaw, artist, r) ==
    LET title == cleanTrackTitleForSearch(titleRaw)
        searchUrl == BandcampSearchUrl(titleRaw, artist)
        matches == Dedup(r.urls, {})
        best == BestMatch(matches, 1, title, artist,
                          [url |-> matches[1], score |-> -999])
    IN IF r.threw \/ ~r.ok \/ matches = <<>>
       THEN [direct |-> <<>>, search |-> searchUrl]
       ELSE IF best.score >= Threshold
       THEN [direct |-> best.url, search |-> searchUrl]
       ELSE [direct |-> <<>>, search |-> searchUrl]

(* ---------------------------- searchITunesLinks ------------------------- *)
\* a song link added for a track id without a collection id
buildITunesStoreCandidatesSongOnly(trackId, collectionId) ==
    IF trackId # 0 /\ collectionId # 0
    THEN << <<"itms://itunes.apple.com/WebObjects/MZStore.woa/wa/viewAlbum?i=",
              trackId, "&id=", collectionId, "&uo=4&app=itunes">>,
            <<"itms://itunes.apple.com/album/id", collectionId, "?i=",
              trackId, "&uo=4&app=itunes">>,
            <<"itms://itunes.apple.com/WebObjects/MZStore.woa/wa/viewSong?i=",
              trackId, "&uo=4&app=itunes">> >>
    ELSE IF collectionId # 0
    THEN << <<"itms://itunes.apple.com/album/id", collectionId,
              "?uo=4&app=itunes">> >>
    ELSE IF trackId # 0
    THEN << <<"itms://itunes.apple.com/WebObjects/MZStore.woa/wa/viewSong?i=",
              trackId, "&uo=4&app=itunes">> >>
    ELSE <<>>

\* ids are numbers, 0 standing for an absent (undefined) id
buildITunesStoreCandidates(trackId, collectionId) ==
    IF trackId # 0 /\ collectionId # 0
    THEN << <<"itms://itunes.apple.com/WebObjects/MZStore.woa/wa/viewAlbum?i=",
              trackId, "&id=", collectionId, "&uo=4&app=itunes">>,
            <<"itms://itunes.apple.com/album/id", collectionId, "?i=",
              trackId, "&uo=4&app=itunes">>,
            <<"itms://itunes.apple.com/WebObjects/MZStore.woa/wa/viewSong?i=",
              trackId, "&uo=4&app=itunes">> >>
    ELSE IF collectionId # 0
    THEN << <<"itms://itunes.apple.com/album/id", collectionId,
              "?uo=4&app=itunes">> >>
    ELSE <<>>

\* lines 214-215 without toLowerCase on the result's names
RECURSIVE SelectBestCased(_, _, _, _, _)
SelectBestCased(results, i, artist, cleanTitle, best) ==
    IF i > Len(results) THEN best
    ELSE IF /\ Includes(results[i].artistName, ToLowerCase(artist))
            /\ Includes(results[i].trackName, ToLowerCase(cleanTitle))
    THEN i
    ELSE SelectBestCased(results, i + 1, artist, cleanTitle,
                         IF best = 0 THEN i ELSE best)

\* lines 213-219: the index of the selected result, 0 when there is none
RECURSIVE SelectBest(_, _, _, _, _)
SelectBest(results, i, artist, cleanTitle, best) ==
    IF i > Len(results) THEN best
    ELSE IF /\ Includes(ToLowerCase(results[i].artistName), ToLowerCase(artist))
            /\ Includes(ToLowerCase(results[i].trackName), ToLowerCase(cleanTitle))
    THEN i
    ELSE SelectBest(results, i + 1, artist, cleanTitle,
                    IF best = 0 THEN i ELSE best)

NoLinks == [storeCandidates |-> <<>>, web |-> <<>>]

\* searchITunesLinks on a fetch that did not reject: r.ok (HTTP success),
\* r.results (data.results ?? []); <<>> stands for null
searchITunesLinks(title, artist, r) ==
    LET cleanTitle == cleanTrackTitleForSearch(title)
        b == SelectBest(r.results, 1, artist, cleanTitle, 0)
        best == r.results[b]
    IN IF ~r.ok \/ b = 0 THEN NoLinks
       ELSE [storeCandidates |->
                 buildITunesStoreCandidates(best.trackId, best.collectionId),
             web |-> IF best.trackViewUrl # <<>> THEN best.trackViewUrl
                     ELSE best.collectionViewUrl]

(* ------------------------------ the world ------------------------------- *)
\* playlist ids the upstream services may name
TokA == <<"ABC123">>
TokB == <<"xyz">>

\* pages the short-link service may land on
LandingUrls ==
    { <<"https://", "open.spotify.com", "/", "playlist", "/", "ABC123">>,
      <<"https://", "open.spotify.com", "/", "album", "/", "xyz">> }

\* an open.spotify.com URL with white space right after the host's "/"
WsUrl == <<"https://", "open.spotify.com", "/", " ", "playlist", "/", "xyz">>

LandingFrags ==
    {[kind |-> k, url |-> u] : k \in {"bare", "meta", "js"}, u \in LandingUrls}
    \cup {[kind |-> "metaWs", url |-> WsUrl], [kind |-> "text", url |-> <<>>]}

OEmbedFrags ==
    {[kind |-> "embed", tok |-> TokA], [kind |-> "embed", tok |-> <<>>],
     [kind |-> "uri", tok |-> TokB], [kind |-> "text", tok |-> <<>>]}

\* a settled fetch: threw (the promise rejected), ok (Response.ok), url
\* (Response.url), html (the body, as fragments)
Resp(threw, ok, url, html) ==
    [threw |-> threw, ok |-> ok, url |-> url, html |-> html]
Threw == Resp(TRUE, FALSE, <<>>, <<>>)
NotOk == Resp(FALSE, FALSE, <<>>, <<>>)
Ok == Resp(FALSE, TRUE, <<>>, <<>>)

\* what the short-link fetch of `input` may settle to
ExpandResponses(input) ==
    {Threw}
    \cup {Resp(FALSE, TRUE, u, <<>>) : u \in LandingUrls \cup {URLToString(input)}}
    \cup {Resp(FALSE, TRUE, <<>>, h) : h \in SeqsUpTo(LandingFrags, MaxHtml)}

\* what the oEmbed probe may settle to
OEmbedResponses ==
    {Threw, NotOk}
    \cup {Resp(FALSE, TRUE, <<>>, h) : h \in SeqsUpTo(OEmbedFrags, MaxHtml)}

\* what the token request and a track-page request may settle to
PlainResponses == {Threw, NotOk, Ok}

\* the message of the error a rejected fetch or json() carries
NetworkError == "fetch failed"

(* -------------------------------- state --------------------------------- *)
VARIABLES
    playlistUrl,  \* the request's playlistUrl, <<>> when missing
    envOk,        \* SPOTIFY_CLIENT_ID and SPOTIFY_CLIENT_SECRET are both set
    upstream,     \* the playlist's pages, linked by "next" in this order
    lastNext,     \* the "next" of the last of them: 0 when empty/absent, else
                  \* the page it names
    stores,       \* "any": the two stores answer in any way; "down": they
                  \* answer every search with a non-success status
    probe,        \* a function of the route called on its own: its name (op),
                  \* its arguments (args) and what its calls returned (outs)
    pageUrl,      \* Page's url
    loading,      \* Page's loading
    pageRows,     \* Page's rows
    error,        \* Page's error, Null for null
    inFlight,     \* the fetches of handleGenerate that have not settled
    runs,         \* how each finished run of handleGenerate ended
    chains,       \* the calls of openApple: their arguments, the index their
                  \* pending timer will try (0: no timer) and what they opened
    pc,           \* where POST is: start, expandWait, oembedWait, tokenWait,
                  \* pageWait, lookups, done
    calls,        \* the blocking outbound requests, in the order issued
    lastResp,     \* what the latest of them to settle settled to
    expanded,     \* POST's expanded
    playlistId,   \* POST's playlistId, <<>> for null
    items,        \* fetchAllTracks' items; POST's tracks once it returned
    tasks,        \* the per-track callbacks of tracks.map
    response      \* the response POST returned, status 0 while there is none

pageState == <<pageUrl, loading, pageRows, error, inFlight, runs, chains>>
world == <<playlistUrl, envOk, upstream, lastNext, stores, probe, pageState>>
vars == <<playlistUrl, envOk, upstream, lastNext, stores, probe, pageUrl, loading,
          pageRows, error, inFlight, runs, chains, pc, calls, lastResp, expanded,
          playlistId, items, tasks, response>>

\* the page as first rendered
Null == "null"
FirstRender ==
    /\ pageUrl = <<>>
    /\ loading = FALSE
    /\ pageRows = <<>>
    /\ error = Null
    /\ inFlight = 0
    /\ runs = <<>>
    /\ chains = <<>>

NoResponse == [status |-> 0, error |-> "", results |-> <<>>]
ErrorResponse(status, msg) == [status |-> status, error |-> msg, results |-> <<>>]
ResultsResponse(rows) == [status |-> 200, error |-> "", results |-> rows]

\* an outbound request: key is the URL it asks about (the short link, the
\* oEmbed url parameter, the playlist id), page the track page it asks for
Call(kind, method, redirect, key, page) ==
    [kind |-> kind, method |-> method, redirect |-> redirect, key |-> key,
     page |-> page]

\* the latest call has settled to r
Settled(r) == [call |-> Len(calls), resp |-> r]
NothingSettled == [call |-> 0, resp |-> Threw]

(* ----------------------------- fetchAllTracks --------------------------- *)
\* An upstream item: hasTrack is FALSE for a null track; name is track.name
\* and artists the names of track.artists.
Item(hasTrack, name, artists) ==
    [hasTrack |-> hasTrack, name |-> name, artists |-> artists]

\* line 130 testing the list of artists instead of the joined string
RECURSIVE KeepTracksByList(_)
KeepTracksByList(its) ==
    IF its = <<>> THEN <<>>
    ELSE LET it == its[1]
             title == it.name
             artist == Join(it.artists, <<",", " ">>)
         IN (IF it.hasTrack /\ title # <<>> /\ it.artists # <<>>
             THEN <<[title |-> title, artist |-> artist]>>
             ELSE <<>>) \o KeepTracksByList(Tail(its))

\* lines 125-131: the tracks one page adds to items
RECURSIVE KeepTracks(_)
KeepTracks(its) ==
    IF its = <<>> THEN <<>>
    ELSE LET it == its[1]
             title == it.name
             artist == Join(it.artists, <<",", " ">>)
         IN (IF it.hasTrack /\ title # <<>> /\ artist # <<>>
             THEN <<[title |-> title, artist |-> artist]>>
             ELSE <<>>) \o KeepTracks(Tail(its))

\* line 132 with a check that stops at the end of the list of pages
NextPageOfList(k) == IF k < Len(upstream) THEN k + 1 ELSE 0

\* data.next of page k: the page it names, 0 when empty/absent
NextPage(k) == IF k < Len(upstream) THEN k + 1 ELSE lastNext

(* ------------------------------- POST ------------------------------------ *)
NoBandcamp == [direct |-> <<>>, search |-> <<>>]
NewTask == [stage |-> "apple", apple |-> NoLinks, bc |-> NoBandcamp]

\* line 257 returning the title the searches were made with
RowOfCleanedTitle(ts, tracks, i) ==
    [title |-> cleanTrackTitleForSearch(tracks[i].title),
     artist |-> tracks[i].artist,
     links |-> [appleStoreCandidates |-> ts[i].apple.storeCandidates,
                appleWeb |-> ts[i].apple.web,
                bandcamp |-> ts[i].bc.direct,
                bandcampSearch |-> ts[i].bc.search]]

\* lines 256-265: the row of track i
Row(ts, tracks, i) ==
    [title |-> tracks[i].title,
     artist |-> tracks[i].artist,
     links |-> [appleStoreCandidates |-> ts[i].apple.storeCandidates,
                appleWeb |-> ts[i].apple.web,
                bandcamp |-> ts[i].bc.direct,
                bandcampSearch |-> ts[i].bc.search]]

Rows(ts, tracks) == [i \in 1..Len(tracks) |-> Row(ts, tracks, i)]

\* lines 270-271: the catch of POST
Fail(msg) ==
    /\ calls' = calls
    /\ pc' = "done"
    /\ response' = ErrorResponse(500, msg)

\* lines 248-249 up to the first await of fetchAllTracks
ToToken(id) ==
    /\ playlistId' = id
    /\ IF envOk
       THEN /\ calls' = Append(calls, Call("token", "POST", "follow", <<>>, 0))
            /\ pc' = "tokenWait"
            /\ response' = response
       ELSE Fail("Missing Spotify env vars")

\* lines 238-246 up to the await of parseIdViaOEmbed
ToResolve(e) ==
    /\ expanded' = e
    /\ LET p == parseIdFromUrlOrUri(e)
       IN IF p.ok THEN ToToken(p.id)
          ELSE /\ playlistId' = <<>>
               /\ calls' = Append(calls, Call("oembed", "GET", "follow", e, 0))
               /\ pc' = "oembedWait"
               /\ response' = response

\* lines 231-235: the request arrives; expandSpotifyUrl runs to its fetch, or
\* returns its input and POST runs on to its next outbound request
Receive ==
    /\ pc = "start"
    /\ IF playlistUrl = <<>>
       THEN /\ pc' = "done"
            /\ response' = ErrorResponse(400, "playlistUrl required")
            /\ UNCHANGED <<calls, expanded, playlistId>>
       ELSE IF NeedsExpansion(playlistUrl)
       THEN /\ calls' = Append(calls, Call("expand", "GET", "follow",
                                       URLToString(playlistUrl), 0))
            /\ pc' = "expandWait"
            /\ UNCHANGED <<expanded, playlistId, response>>
       ELSE ToResolve(playlistUrl)
    /\ UNCHANGED <<world, lastResp, items, tasks>>

\* lines 39-50: the short-link fetch settles
ExpandSettles ==
    /\ pc = "expandWait"
    /\ \E r \in ExpandResponses(playlistUrl) :
          /\ lastResp' = Settled(r)
          /\ LET e == expandSpotifyUrl(r, playlistUrl)
             IN IF e.raised
                THEN Fail(NetworkError) /\ UNCHANGED <<expanded, playlistId>>
                ELSE ToResolve(e.value)
    /\ UNCHANGED <<world, items, tasks>>

\* lines 75-90 and 244-246: the oEmbed probe settles
OEmbedSettles ==
    /\ pc = "oembedWait"
    /\ \E r \in OEmbedResponses :
          /\ lastResp' = Settled(r)
          /\ LET id == parseIdViaOEmbed(r)
             IN IF id # <<>> THEN ToToken(id)
                ELSE /\ playlistId' = <<>>
                     /\ Fail("Could not parse playlist ID")
    /\ UNCHANGED <<world, expanded, items, tasks>>

\* line 110 left out: the token is read whatever the status
TokenOkUnchecked(r) == TRUE

\* line 110: the token response is accepted
TokenOk(r) == r.ok

\* line 123 left out: a page is read whatever its status
PageOkUnchecked(r) == TRUE

\* line 123: a track-page response is accepted
PageOk(r) == r.ok

\* lines 110-111 and 115-119: the token request settles
TokenSettles ==
    /\ pc = "tokenWait"
    /\ \E r \in PlainResponses :
          /\ lastResp' = Settled(r)
          /\ IF r.threw THEN Fail(NetworkError)
             ELSE IF ~TokenOk(r) THEN Fail("Failed to get Spotify token")
             ELSE /\ calls' = Append(calls,
                                     Call("page", "GET", "follow", playlistId, 1))
                  /\ pc' = "pageWait"
                  /\ response' = response
    /\ UNCHANGED <<world, expanded, playlistId, items, tasks>>

\* lines 252-255: tracks.map starts one callback per track, each running to
\* its first await; Promise.all of no promise is fulfilled at once
StartLookups(tracks) ==
    /\ calls' = calls
    /\ tasks' = [i \in 1..Len(tracks) |-> NewTask]
    /\ IF tracks = <<>>
       THEN pc' = "done" /\ response' = ResultsResponse(<<>>)
       ELSE pc' = "lookups" /\ response' = response

\* lines 123-134: a track-page request settles
PageSettles ==
    /\ pc = "pageWait"
    /\ \E r \in PlainResponses :
          /\ lastResp' = Settled(r)
          /\ LET k == calls[Len(calls)].page
                 got == items \o KeepTracks(upstream[k])
             IN IF r.threw THEN Fail(NetworkError) /\ UNCHANGED <<items, tasks>>
                ELSE IF ~PageOk(r)
                THEN Fail("Failed to fetch Spotify tracks") /\ UNCHANGED <<items, tasks>>
                ELSE /\ items' = got
                     /\ IF NextPage(k) # 0
                        THEN /\ Len(calls) < MaxCalls
                             /\ calls' = Append(calls, Call("page", "GET", "follow",
                                                            playlistId, NextPage(k)))
                             /\ UNCHANGED <<pc, response, tasks>>
                        ELSE StartLookups(got)
    /\ UNCHANGED <<world, expanded, playlistId>>

\* what the iTunes search for a track may settle to
AppleHit ==
    [artistName |-> <<"B","a","n","d">>, trackName |-> <<"S","o","n","g">>,
     trackId |-> 7, collectionId |-> 9,
     trackViewUrl |-> <<"https://music.apple.com/track/7">>,
     collectionViewUrl |-> <<"https://music.apple.com/album/9">>]

AppleResp(threw, ok, results) == [threw |-> threw, ok |-> ok, results |-> results]
AppleResponses ==
    {AppleResp(TRUE, FALSE, <<>>), AppleResp(FALSE, FALSE, <<>>),
     AppleResp(FALSE, TRUE, <<>>), AppleResp(FALSE, TRUE, <<AppleHit>>)}

\* what the Bandcamp search for a track may settle to: urls are the matches
\* of rx in the page, in page order
BandcampUrlA ==
    HttpsScheme \o <<"b","a","n","d">> \o BandcampHost \o TrackPath
    \o <<"s","o","n","g">>
BandcampUrlB ==
    HttpsScheme \o <<"d","j">> \o BandcampHost \o TrackPath
    \o <<"s","o","n","g","-","r","e","m","i","x">>
BandcampUrlLists == {<<>>, <<BandcampUrlB, BandcampUrlA, BandcampUrlB>>}

BandcampResp(threw, ok, urls) == [threw |-> threw, ok |-> ok, urls |-> urls]
BandcampResponses ==
    {BandcampResp(TRUE, FALSE, <<>>), BandcampResp(FALSE, FALSE, <<>>)}
    \cup {BandcampResp(FALSE, TRUE, us) : us \in BandcampUrlLists}

\* what the stores answer in a world of this kind
AppleAnswers(w) ==
    IF w = "down" THEN {AppleResp(FALSE, FALSE, <<>>)} ELSE AppleResponses
BandcampAnswers(w) ==
    IF w = "down" THEN {BandcampResp(FALSE, FALSE, <<>>)} ELSE BandcampResponses

\* lines 254 and 210-225: the iTunes fetch of track t settles; a rejection
\* rejects the callback, and Promise.all with it, into POST's catch
AppleSettles(t) ==
    /\ tasks[t].stage = "apple"
    /\ \E r \in AppleAnswers(stores) :
          IF r.threw
          THEN /\ tasks' = [tasks EXCEPT ![t].stage = "rejected"]
               /\ IF pc = "lookups"
                  THEN pc' = "done" /\ response' = ErrorResponse(500, NetworkError)
                  ELSE UNCHANGED <<pc, response>>
          ELSE /\ tasks' = [tasks EXCEPT
                              ![t].stage = "bandcamp",
                              ![t].apple = searchITunesLinks(items[t].title,
                                                             items[t].artist, r)]
               /\ UNCHANGED <<pc, response>>
    /\ UNCHANGED <<world, calls, lastResp, expanded, playlistId, items>>

\* lines 255-269 and 170-189: the Bandcamp fetch of track t settles; when it
\* was the last callback Promise.all is fulfilled and POST returns the rows
BandcampSettles(t) ==
    /\ tasks[t].stage = "bandcamp"
    /\ \E r \in BandcampAnswers(stores) :
          /\ tasks' = [tasks EXCEPT
                         ![t].stage = "done",
                         ![t].bc = searchBandcamp(items[t].title, items[t].artist, r)]
          /\ IF pc = "lookups" /\ \A i \in DOMAIN tasks : tasks'[i].stage = "done"
             THEN pc' = "done" /\ response' = ResultsResponse(Rows(tasks', items))
             ELSE UNCHANGED <<pc, response>>
    /\ UNCHANGED <<world, calls, lastResp, expanded, playlistId, items>>

Next ==
    \/ Receive
    \/ ExpandSettles
    \/ OEmbedSettles
    \/ TokenSettles
    \/ PageSettles
    \/ \E t \in DOMAIN tasks : AppleSettles(t)
    \/ \E t \in DOMAIN tasks : BandcampSettles(t)

(* ------------------------- initial states ------------------------------- *)
Song == <<"S","o","n","g">>
Tune == <<"T","u","n","e">>
Band == <<"B","a","n","d">>
Duo == <<"D","u","o">>

ItemA == Item(TRUE, Song, <<Band>>)
ItemB == Item(TRUE, Tune, <<Duo, Band>>)

\* items fetchAllTracks must skip, and one it must keep with the artist ", "
NullItem == Item(FALSE, <<>>, <<>>)
OddItems == {NullItem, Item(TRUE, <<>>, <<Band>>), Item(TRUE, Song, <<>>),
             Item(TRUE, Song, << <<>> >>), Item(TRUE, Tune, << <<>>, <<>> >>)}

\* a playlist of n items, ItemA and ItemB in turn
Playlist(n) == [i \in 1..n |-> IF i % 2 = 1 THEN ItemA ELSE ItemB]

\* the pages of the items flat, PageLimit items to a page (one empty page for
\* an empty playlist)
RECURSIVE Chunk(_)
Chunk(flat) ==
    IF Len(flat) <= PageLimit THEN <<flat>>
    ELSE <<SubSeq(flat, 1, PageLimit)>>
         \o Chunk(SubSeq(flat, PageLimit + 1, Len(flat)))

RECURSIVE SumTo(_, _)
SumTo(sz, k) == IF k = 0 THEN 0 ELSE sz[k] + SumTo(sz, k - 1)

\* the pages of the items flat, sz[k] items to page k
Paged(flat, sz) ==
    [k \in 1..Len(sz) |-> SubSeq(flat, SumTo(sz, k - 1) + 1, SumTo(sz, k))]

\* every chain of 1..EnumMaxPages pages that holds at most EnumMaxItems items
EnumUpstreams ==
    UNION { { Paged(flat, sz) :
                sz \in {z \in UNION {[1..n -> 0..Len(flat)] : n \in 1..EnumMaxPages} :
                            SumTo(z, Len(z)) = Len(flat)} } :
            flat \in SeqsUpTo({ItemA, ItemB} \cup OddItems, EnumMaxItems) }

NativeUri == <<"spotify:playlist:", "ABC123">>
AlbumUrl == <<"https://", "open.spotify.com", "/", "album", "/", "xyz">>
ShortUrl == <<"https://", "spoti.fi", "/", "xyz">>

\* paths of an https URL: empty or starting with "/"
PathsOver(S, n) == {p \in SeqsUpTo(S, n) : p = <<>> \/ p[1] = "/"}
PlainPaths == PathsOver({"/", "playlist", "ABC123"}, MaxPathLen)
MixedPaths == PathsOver({"/", "PlayList", "xyz", "-en"}, MaxPathLen)

ResolveInputs ==
    {<<>>, <<"xyz">>, <<"/", "playlist", "/", "ABC123">>,
     <<"open.spotify.com", "/", "playlist", "/", "ABC123">>}
    \cup {<<u>> \o t : u \in UriPrefix,
                       t \in SeqsUpTo({"ABC123", "/", "playlist"}, MaxUriTail)}
    \cup {<<u, "ABC123", "?si=xyz">> : u \in UriPrefix}
    \cup {<<"https://", "open.spotify.com">> \o p : p \in PlainPaths}
    \cup {<<"https://", "open.spotify.com">> \o p : p \in MixedPaths}
    \cup {<<"https://", "open.spotify.com">> \o p \o <<"?si=xyz">> :
              p \in {m \in MixedPaths : Len(m) < MaxPathLen}}
    \cup {<<"https://", h>> \o p :
              h \in HostSyms \ {"open.spotify.com"},
              p \in {<<>>, <<"/", "xyz">>, <<"/", "playlist", "/", "xyz">>}}

\* no function is called on its own
NoProbe == [op |-> "none", args |-> <<>>, outs |-> <<>>]

InitLooped(input, env, up, ln, st) ==
    /\ playlistUrl = input
    /\ envOk = env
    /\ upstream = up
    /\ lastNext = ln
    /\ stores = st
    /\ probe = NoProbe
    /\ FirstRender
    /\ pc = "start"
    /\ calls = <<>>
    /\ lastResp = NothingSettled
    /\ expanded = <<>>
    /\ playlistId = <<>>
    /\ items = <<>>
    /\ tasks = <<>>
    /\ response = NoResponse

\* a chain of pages that ends
InitWith(input, env, up, st) == InitLooped(input, env, up, 0, st)

\* the whole request: few inputs, playlists of up to MaxTracks tracks
Init ==
    \E input \in {<<>>, NativeUri, AlbumUrl, ShortUrl}, env \in BOOLEAN,
       n \in 0..MaxTracks :
        InitWith(input, env, Chunk(Playlist(n)), "any")

Spec == Init /\ [][Next]_vars

\* the resolver: every input of ResolveInputs, a playlist of one track, the
\* stores down
InitResolve ==
    \E input \in ResolveInputs : InitWith(input, TRUE, Chunk(Playlist(1)), "down")

SpecResolve == InitResolve /\ [][Next]_vars

\* the enumerator: every chain of EnumUpstreams for a native URI, and a short
\* link to a playlist of two tracks, the stores down
InitEnum ==
    \/ \E up \in EnumUpstreams : InitWith(NativeUri, TRUE, up, "down")
    \/ InitWith(ShortUrl, TRUE, Chunk(Playlist(2)), "down")

SpecEnum == InitEnum /\ [][Next]_vars

(* ------------------- the functions called on their own ------------------ *)
Probe(op, args) == [op |-> op, args |-> args, outs |-> <<>>]

\* no request is being served
Idle ==
    /\ playlistUrl = <<>>
    /\ envOk = TRUE
    /\ upstream = <<>>
    /\ lastNext = 0
    /\ stores = "down"
    /\ FirstRender
    /\ pc = "idle"
    /\ calls = <<>>
    /\ lastResp = NothingSettled
    /\ expanded = <<>>
    /\ playlistId = <<>>
    /\ items = <<>>
    /\ tasks = <<>>
    /\ response = NoResponse

\* the concatenation of a sequence of strings
RECURSIVE Flat(_)
Flat(ss) == IF ss = <<>> THEN <<>> ELSE ss[1] \o Flat(Tail(ss))

\* raw titles are up to MaxChunks of these pieces in a row
TitleChunks ==
    { <<"S","o","n","g">>, <<" ","(","L","i","v","e",")">>, <<" ","-"," ">>, <<" ","-">>,
      <<"2","0","1","9">>, <<" ","R","e","m","a","s","t","e","r">>, <<" ","B">> }

\* cleanTrackTitleForSearch called on a raw title, then on its own result
CleanRuns ==
    /\ probe.op = "clean"
    /\ Len(probe.outs) < 2
    /\ probe' = [probe EXCEPT !.outs =
                    Append(@, cleanTrackTitleForSearch(
                                  IF @ = <<>> THEN probe.args[1] ELSE @[Len(@)]))]
    /\ UNCHANGED <<playlistUrl, envOk, upstream, lastNext, stores, pageState, pc, calls, lastResp,
                   expanded, playlistId, items, tasks, response>>

InitClean ==
    /\ Idle
    /\ \E cs \in SeqsUpTo(TitleChunks, MaxChunks) :
          probe = Probe("clean", <<Flat(cs)>>)

SpecClean == InitClean /\ [][CleanRuns]_vars

\* titles and artists given to the scorer: up to MaxWords words, the artist
\* alone or followed by a second artist
Phrases(W) == {Join(ws, <<" ">>) : ws \in SeqsUpTo(W, MaxWords)}
ScoreTitles == Phrases({Song, <<"M","i","x">>, <<"L","i","v","e">>})
ScoreArtists ==
    {a \o more : a \in Phrases({Band, <<"E","d","i","t","o","r","s">>}),
                 more \in {<<>>, <<","," ","D","u","o">>}}

\* track pages of Bandcamp: https://<sub>.bandcamp.com/track/<path>
BandcampTrackUrl(sub, path) ==
    HttpsScheme \o sub \o BandcampHost \o TrackPath \o path
Subdomains == {<<"b","a","n","d">>, <<"m","y","b","a","n","d">>, <<"d","j">>}
TrackSlugs == {<<"s","o","n","g">>, <<"m","i","x">>}

\* the page of the track on the first artist's own subdomain
OwnSlugs(title, artist) ==
    <<Join(normalizeTokens(BeforeComma(artist)), <<"-">>),
      Join(normalizeTokens(title), <<"-">>)>>

\* similarityScore called on a track page, then on that page with "-remix"
\* added
ScoreRuns ==
    /\ probe.op = "score"
    /\ Len(probe.outs) < 2
    /\ LET url == BandcampTrackUrl(probe.args[3], probe.args[4])
                  \o (IF probe.outs = <<>> THEN <<>> ELSE <<"-","r","e","m","i","x">>)
       IN probe' = [probe EXCEPT !.outs =
                       Append(@, similarityScore(probe.args[1], probe.args[2], url))]
    /\ UNCHANGED <<playlistUrl, envOk, upstream, lastNext, stores, pageState, pc, calls, lastResp,
                   expanded, playlistId, items, tasks, response>>

InitScore ==
    /\ Idle
    /\ \E title \in ScoreTitles, artist \in ScoreArtists :
          \E page \in (Subdomains \X TrackSlugs) \cup {OwnSlugs(title, artist)} :
              probe = Probe("score", <<title, artist, page[1], page[2]>>)

SpecScore == InitScore /\ [][ScoreRuns]_vars

\* the track URLs a Bandcamp search page may hold
CandidateUrls ==
    {BandcampUrlA, BandcampUrlB,
     BandcampTrackUrl(<<"m","y","b","a","n","d">>, <<"s","o","n","g">>),
     BandcampTrackUrl(<<"d","u","o">>, <<"s","o","n","g">>),
     BandcampTrackUrl(<<"b","a","n","d">>, <<"s","o","n","g","-","l","i","v","e">>)}

LongTitle == <<"S","o","n","g"," ","(","L","i","v","e",")"," ","-"," ","2","0","1","9"," ","R","e","m","a","s","t","e","r">>

\* searchBandcamp called on a track and a settled fetch
BandcampRuns ==
    /\ probe.op = "bandcamp"
    /\ probe.outs = <<>>
    /\ probe' = [probe EXCEPT !.outs =
                    <<searchBandcamp(probe.args[1], probe.args[2], probe.args[3])>>]
    /\ UNCHANGED <<playlistUrl, envOk, upstream, lastNext, stores, pageState, pc, calls, lastResp,
                   expanded, playlistId, items, tasks, response>>

InitBandcamp ==
    /\ Idle
    /\ \E titleRaw \in {LongTitle, <<"M","i","x">>},
          artist \in {Duo, Band \o <<","," ">> \o Duo} :
          \E r \in {BandcampResp(TRUE, FALSE, <<>>), BandcampResp(FALSE, FALSE, <<>>)}
                   \cup {BandcampResp(FALSE, TRUE, us) :
                             us \in SeqsUpTo(CandidateUrls, MaxMatches)} :
              probe = Probe("bandcamp", <<titleRaw, artist, r>>)

SpecBandcamp == InitBandcamp /\ [][BandcampRuns]_vars

\* results the iTunes search may return: AppleHit; a hit in another letter
\* case with a collection only; a miss with a track id only; one with no
\* names and no ids
AppleOtherCase ==
    [artistName |-> <<"T","h","e"," ","B","A","N","D">>, trackName |-> <<"S","O","N","G"," ","B">>,
     trackId |-> 0, collectionId |-> 9,
     trackViewUrl |-> <<>>,
     collectionViewUrl |-> <<"https://music.apple.com/album/9">>]
AppleMiss ==
    [artistName |-> Duo, trackName |-> Tune,
     trackId |-> 7, collectionId |-> 0,
     trackViewUrl |-> <<>>, collectionViewUrl |-> <<>>]
AppleBare ==
    [artistName |-> <<>>, trackName |-> <<>>,
     trackId |-> 0, collectionId |-> 0,
     trackViewUrl |-> <<"https://music.apple.com/track/5">>,
     collectionViewUrl |-> <<>>]

\* searchITunesLinks called on a track and a fetch that did not reject
AppleRuns ==
    /\ probe.op = "apple"
    /\ probe.outs = <<>>
    /\ probe' = [probe EXCEPT !.outs =
                    <<searchITunesLinks(probe.args[1], probe.args[2], probe.args[3])>>]
    /\ UNCHANGED <<playlistUrl, envOk, upstream, lastNext, stores, pageState, pc, calls, lastResp,
                   expanded, playlistId, items, tasks, response>>

InitApple ==
    /\ Idle
    /\ \E title \in {Song, LongTitle, <<"(","L","i","v","e",")">>},
          artist \in {Band, Duo, Band \o <<","," ">> \o Duo}, ok \in BOOLEAN :
          \E rs \in SeqsUpTo({AppleHit, AppleOtherCase, AppleMiss, AppleBare},
                             MaxResults) :
              probe = Probe("apple", <<title, artist, AppleResp(FALSE, ok, rs)>>)

SpecApple == InitApple /\ [][AppleRuns]_vars

(* ------------- the whole request, titles the cleaner changes ------------ *)
\* a track whose title the cleaner cuts down to "Song"
ItemL == Item(TRUE, LongTitle, <<Band, Duo>>)

\* playlists of two tracks on one page or two, of which one at least is ItemL
InitRows ==
    \E input \in {NativeUri, AlbumUrl, ShortUrl},
       up \in { << <<ItemL, ItemA>> >>, << <<ItemA>>, <<ItemL>> >>,
                << <<ItemL>>, <<NullItem, ItemL>> >> } :
        InitWith(input, TRUE, up, "any")

SpecRows == InitRows /\ [][Next]_vars

(* ---------------- the enumerator on chains that may loop ---------------- *)
\* chains of one to three pages whose last page names no page or any page of
\* the chain, itself included
InitPages ==
    \E input \in {NativeUri, AlbumUrl, ShortUrl},
       up \in { << <<ItemA>> >>, << <<ItemA>>, <<ItemB>> >>,
                << <<ItemA, ItemB>>, <<>>, <<NullItem, ItemA>> >> } :
        \E ln \in 0..Len(up) : InitLooped(input, TRUE, up, ln, "down")

SpecPages == InitPages /\ [][Next]_vars

(* -------------------------------- Page ---------------------------------- *)
\* line 188 without the test of loading
GenerateDisabledWhenEmpty == pageUrl = <<>>

\* line 188: the Generate button is disabled
GenerateDisabled == loading \/ pageUrl = <<>>

\* line 167: the user edits the playlist link
SetUrl ==
    /\ \E u \in {<<>>, NativeUri, ShortUrl} : u # pageUrl /\ pageUrl' = u
    /\ UNCHANGED <<playlistUrl, envOk, upstream, lastNext, stores, probe, loading,
                   pageRows, error, inFlight, runs, chains, pc, calls, lastResp,
                   expanded, playlistId, items, tasks, response>>

\* lines 44-52: a click on Generate runs handleGenerate to its fetch, which
\* starts a POST of its own
Generate ==
    /\ ~GenerateDisabled
    /\ Len(runs) + inFlight < MaxRuns
    /\ loading' = TRUE
    /\ error' = Null
    /\ pageRows' = <<>>
    /\ inFlight' = inFlight + 1
    /\ playlistUrl' = pageUrl
    /\ pc' = "start"
    /\ calls' = <<>>
    /\ lastResp' = NothingSettled
    /\ expanded' = <<>>
    /\ playlistId' = <<>>
    /\ items' = <<>>
    /\ tasks' = <<>>
    /\ response' = NoResponse
    /\ UNCHANGED <<envOk, upstream, lastNext, stores, probe, pageUrl, runs, chains>>

\* lines 53-55 and 59: the response of POST arrives and its body is read
ResponseArrives ==
    /\ inFlight > 0
    /\ pc = "done"
    /\ IF response.status = 200
       THEN /\ pageRows' = response.results
            /\ error' = error
            /\ runs' = Append(runs, "rows")
       ELSE /\ pageRows' = pageRows
            /\ error' = IF response.error # "" THEN response.error
                        ELSE "Request failed"
            /\ runs' = Append(runs, "error")
    /\ loading' = FALSE
    /\ inFlight' = inFlight - 1
    /\ UNCHANGED <<playlistUrl, envOk, upstream, lastNext, stores, probe, pageUrl,
                   chains, pc, calls, lastResp, expanded, playlistId, items,
                   tasks, response>>

\* lines 48, 53 and 56-59: the fetch or the reading of the body rejects, with
\* a message or with none
FetchFails ==
    /\ inFlight > 0
    /\ \E msg \in {"Failed to fetch", ""} :
          error' = IF msg # "" THEN msg ELSE "Something went wrong"
    /\ loading' = FALSE
    /\ inFlight' = inFlight - 1
    /\ runs' = Append(runs, "error")
    /\ UNCHANGED <<playlistUrl, envOk, upstream, lastNext, stores, probe, pageUrl,
                   pageRows, chains, pc, calls, lastResp, expanded, playlistId,
                   items, tasks, response>>

PageNext ==
    \/ SetUrl
    \/ Generate
    \/ ResponseArrives
    \/ FetchFails
    \/ Receive
    \/ ExpandSettles
    \/ OEmbedSettles
    \/ TokenSettles
    \/ PageSettles
    \/ \E t \in DOMAIN tasks : AppleSettles(t)
    \/ \E t \in DOMAIN tasks : BandcampSettles(t)

\* the page first rendered, no request made yet; a playlist of one track
InitPage ==
    /\ playlistUrl = <<>>
    /\ envOk = TRUE
    /\ upstream = Chunk(Playlist(1))
    /\ lastNext = 0
    /\ stores = "any"
    /\ probe = NoProbe
    /\ FirstRender
    /\ pc = "idle"
    /\ calls = <<>>
    /\ lastResp = NothingSettled
    /\ expanded = <<>>
    /\ playlistId = <<>>
    /\ items = <<>>
    /\ tasks = <<>>
    /\ response = NoResponse

SpecPage == InitPage /\ [][PageNext]_vars

(* ------------------------------ openApple ------------------------------- *)
\* line 70: the delay of the step timer, in ms
StepMs == 800

\* a call of openApple: timer is the index its pending timer will try (0: no
\* timer is pending), at the time since the call, opened what it has tried
Chain(candidates, web) ==
    [candidates |-> candidates, web |-> web, timer |-> 0, at |-> 0,
     opened |-> <<>>]

\* an attempt: via "assign" for window.location.assign, "open" for
\* window.open; ok tells whether it opened anything
Attempt(href, via, at, ok) == [href |-> href, via |-> via, at |-> at, ok |-> ok]

\* lines 64-73 with the timer set only after an attempt that opened nothing
tryNextUntilOpened(c, i, at, ok) ==
    IF i > Len(c.candidates)
    THEN [c EXCEPT !.timer = 0, !.at = at,
                   !.opened = IF c.web # <<>>
                              THEN Append(@, Attempt(c.web, "open", at, ok))
                              ELSE @]
    ELSE [c EXCEPT !.timer = IF ok THEN 0 ELSE i + 1, !.at = at,
                   !.opened = Append(@, Attempt(c.candidates[i], "assign", at, ok))]

\* lines 64-73: tryNext(i - 1) of chain c, run at time `at`; the attempt it
\* makes opens something or not (ok)
tryNext(c, i, at, ok) ==
    IF i > Len(c.candidates)
    THEN [c EXCEPT !.timer = 0, !.at = at,
                   !.opened = IF c.web # <<>>
                              THEN Append(@, Attempt(c.web, "open", at, ok))
                              ELSE @]
    ELSE [c EXCEPT !.timer = i + 1, !.at = at,
                   !.opened = Append(@, Attempt(c.candidates[i], "assign", at, ok))]

\* lines 261-264 and 74: a click on the "iTunes Store (buy)" button of a row,
\* which is rendered when the row has a candidate
OpenApple ==
    /\ Len(chains) < MaxClicks
    /\ \E i \in DOMAIN pageRows, ok \in BOOLEAN :
          /\ pageRows[i].links.appleStoreCandidates # <<>>
          /\ chains' = Append(chains,
                              tryNext(Chain(pageRows[i].links.appleStoreCandidates,
                                            pageRows[i].links.appleWeb),
                                      1, 0, ok))
    /\ UNCHANGED <<playlistUrl, envOk, upstream, lastNext, stores, probe, pageUrl,
                   loading, pageRows, error, inFlight, runs, pc, calls, lastResp,
                   expanded, playlistId, items, tasks, response>>

\* line 70: the timer of chain c fires, StepMs after it was set
TimerFires(c) ==
    /\ chains[c].timer # 0
    /\ \E ok \in BOOLEAN :
          chains' = [chains EXCEPT
                        ![c] = tryNext(@, @.timer, @.at + StepMs, ok)]
    /\ UNCHANGED <<playlistUrl, envOk, upstream, lastNext, stores, probe, pageUrl,
                   loading, pageRows, error, inFlight, runs, pc, calls, lastResp,
                   expanded, playlistId, items, tasks, response>>

OpenNext ==
    \/ OpenApple
    \/ \E c \in DOMAIN chains : TimerFires(c)

\* an iTunes result with both ids and no URL
AppleNoUrl == [AppleHit EXCEPT !.trackViewUrl = <<>>, !.collectionViewUrl = <<>>]

\* the row POST returns for "Song" by "Band" when the iTunes search returned
\* hit and Bandcamp answered with a non-success status
RowFor(hit) ==
    Row(<<[stage |-> "done",
           apple |-> searchITunesLinks(Song, Band, AppleResp(FALSE, TRUE, <<hit>>)),
           bc |-> searchBandcamp(Song, Band, BandcampResp(FALSE, FALSE, <<>>))]>>,
        <<[title |-> Song, artist |-> Band]>>, 1)

\* the page after a run that showed one row or two
InitOpen ==
    /\ playlistUrl = NativeUri
    /\ envOk = TRUE
    /\ upstream = <<>>
    /\ lastNext = 0
    /\ stores = "any"
    /\ probe = NoProbe
    /\ pageUrl = NativeUri
    /\ loading = FALSE
    /\ \E hits \in { <<AppleHit>>, <<AppleNoUrl>>, <<AppleMiss, AppleOtherCase>>,
                     <<AppleOtherCase, AppleHit>> } :
          pageRows = [i \in DOMAIN hits |-> RowFor(hits[i])]
    /\ error = Null
    /\ inFlight = 0
    /\ runs = <<"rows">>
    /\ chains = <<>>
    /\ pc = "idle"
    /\ calls = <<>>
    /\ lastResp = NothingSettled
    /\ expanded = <<>>
    /\ playlistId = <<>>
    /\ items = <<>>
    /\ tasks = <<>>
    /\ response = NoResponse

SpecOpen == InitOpen /\ [][OpenNext]_vars

(* ------------------------------ claims ---------------------------------- *)
\* the latest blocking call to settle, and what it settled to
SettledKind == IF lastResp.call = 0 THEN "none" ELSE calls[lastResp.call].kind
SettledBad == lastResp.resp.threw \/ ~lastResp.resp.ok

\* every lookup of every track has settled, and each of them failed: the
\* iTunes fetch rejected, or it gave no link and Bandcamp gave no direct link
AllLookupsFailed ==
    /\ tasks # <<>>
    /\ \A t \in DOMAIN tasks :
          \/ tasks[t].stage = "rejected"
          \/ /\ tasks[t].stage = "done"
             /\ tasks[t].apple = NoLinks
             /\ tasks[t].bc.direct = <<>>

\* C1: when every Apple and every Bandcamp lookup of a playlist of N tracks
\* fails (a non-success status or a thrown error), POST still answers with a
\* success response of exactly N rows, each with a non-null bandcampSearch.
C1_AllLookupsFailStillRows ==
    AllLookupsFailed =>
        /\ response.status = 200
        /\ Len(response.results) = Len(items)
        /\ \A i \in DOMAIN response.results :
              response.results[i].links.bandcampSearch # <<>>

\* no lookup of any track is still in flight
LookupsSettled ==
    /\ tasks # <<>>
    /\ \A t \in DOMAIN tasks : tasks[t].stage \notin {"apple", "bandcamp"}

\* C2: the two lookups of a track are failure-isolated: whatever the Apple
\* lookup did (a thrown error included), the Bandcamp lookup of the track was
\* issued and its result is in the track's row, and whatever the Bandcamp
\* lookup did, the Apple result is in the row.
C2_LookupsIsolated ==
    LookupsSettled =>
        /\ \A t \in DOMAIN tasks : tasks[t].stage = "done"
        /\ response.status = 200
        /\ \A t \in DOMAIN tasks :
              /\ response.results[t].links.bandcampSearch = tasks[t].bc.search
              /\ response.results[t].links.bandcamp = tasks[t].bc.direct
              /\ response.results[t].links.appleWeb = tasks[t].apple.web

\* a blocking step failed: the credentials are missing or the token request
\* failed; the oEmbed probe, the last resort, gave no id; a page request failed
TokenFailed ==
    \/ ~envOk /\ playlistId # <<>>
    \/ SettledKind = "token" /\ SettledBad
ResolutionFailed ==
    /\ SettledKind = "oembed"
    /\ lastResp.call = Len(calls)
    /\ playlistId = <<>>
PageFailed == SettledKind = "page" /\ SettledBad

\* C3: if token acquisition fails, or resolution fails after the whole
\* fallback chain, or any track-page request (first or later) fails, POST
\* answers { error } with a non-success status, returns no rows and issues no
\* store lookup.
C3_FatalStepAborts ==
    (TokenFailed \/ ResolutionFailed \/ PageFailed) =>
        /\ pc = "done"
        /\ response.status = 500
        /\ response.error # ""
        /\ response.results = <<>>
        /\ tasks = <<>>

\* C3's case: a later page of a playlist fails after a first page held tracks
C3_Witness ==
    /\ PageFailed
    /\ calls[lastResp.call].page = 2
    /\ items # <<>>
    /\ response.status = 500

\* the calls of one kind, in the order issued
CallsOf(kind) == SelectSeq(calls, LAMBDA c : c.kind = kind)

\* the input is spotify:playlist:<alphanumeric token> and nothing else
InputIsNativeUri ==
    /\ Len(playlistUrl) >= 2
    /\ playlistUrl[1] \in UriPrefix
    /\ \A i \in 2..Len(playlistUrl) : playlistUrl[i] \in Alnum

\* C4: for an input that matches spotify:playlist:<alphanumeric token>
\* exactly, resolution yields exactly the embedded token and issues neither
\* the short-link expansion request nor the oEmbed probe.
C4_NativeUriNoNetwork ==
    (InputIsNativeUri /\ pc # "start") =>
        /\ playlistId = Tail(playlistUrl)
        /\ CallsOf("expand") = <<>>
        /\ CallsOf("oembed") = <<>>

\* C4's case: a native URI in another letter case with a token of two chunks
C4_Witness ==
    /\ InputIsNativeUri
    /\ playlistUrl[1] = "Spotify:Playlist:"
    /\ Len(playlistUrl) = 3
    /\ playlistId = Tail(playlistUrl)
    /\ pc = "tokenWait"

\* the path of the input URL, and where in a path "/playlist/" stands
InputPath == URLParse(playlistUrl).pathname
IsPlaylistSlash(p, i) ==
    /\ i >= 1
    /\ i + 2 <= Len(p)
    /\ p[i] = "/"
    /\ p[i + 1] \in PlaylistWord
    /\ p[i + 2] = "/"
HasTokenAt(p, i) ==
    IsPlaylistSlash(p, i) /\ i + 3 <= Len(p) /\ p[i + 3] \in Alnum
FirstTokenAt(p) ==
    CHOOSE i \in 1..Len(p) :
        HasTokenAt(p, i) /\ \A j \in 1..(i - 1) : ~HasTokenAt(p, j)

\* the hosts expandSpotifyUrl expands: the allow-list, and "www." before it
AllowListed(h) ==
    h \in {"spotify.link", "www.spotify.link", "spoti.fi", "link.tospotify.com",
           "spotify.app.link", "www.spoti.fi", "www.link.tospotify.com",
           "www.spotify.app.link", "www.www.spotify.link"}

\* the input is a parsable URL, not on a short-link host, whose path holds
\* /playlist/<token>
InputHasPlaylistPath ==
    /\ pc # "start"
    /\ URLParse(playlistUrl).ok
    /\ ~AllowListed(URLParse(playlistUrl).hostname)
    /\ \E i \in 1..Len(InputPath) : HasTokenAt(InputPath, i)

\* C5: for every parsable URL that is not on a short-link host and whose
\* path holds a segment /playlist/<token> (in any letter case, after any
\* segments, before any query), resolution returns the token of the first
\* such segment of the path.
C5_TokenOfFirstPlaylistSegment ==
    InputHasPlaylistPath =>
        playlistId = AlnumRun(InputPath, FirstTokenAt(InputPath) + 3)

\* C6: whenever resolution succeeds, the identifier handed to the Track
\* Enumerator is a non-empty string of characters [A-Za-z0-9]; an unparsable
\* input is never used as the identifier (the id then comes from the probe).
C6_IdIsAlphanumeric ==
    \A i \in DOMAIN calls :
        calls[i].kind = "page" =>
            /\ calls[i].key # <<>>
            /\ \A j \in DOMAIN calls[i].key : calls[i].key[j] \in Alnum
            /\ ~URLParse(playlistUrl).ok =>
                   \E j \in 1..(i - 1) : calls[j].kind = "oembed"

\* C6's case: an input that is no URL, resolved by the probe
C6_Witness ==
    /\ playlistUrl = <<"/", "playlist", "/", "ABC123">>
    /\ CallsOf("page") # <<>>
    /\ CallsOf("page")[1].key = TokB

\* the short-link fetch is the latest call to have settled
ExpandJustSettled == SettledKind = "expand"

\* the url of the leftmost fragment of html whose kind is in kinds, else <<>>
FirstFragUrl(html, kinds) ==
    IF \E i \in DOMAIN html : html[i].kind \in kinds
    THEN html[CHOOSE i \in DOMAIN html :
                  /\ html[i].kind \in kinds
                  /\ \A j \in 1..(i - 1) : html[j].kind \notin kinds].url
    ELSE <<>>

\* C7 as stated: a short-link input is expanded by (a) a redirect-suppressed
\* HEAD request, then (b) a redirect-suppressed GET, then (c) a scan of the
\* HTML for a meta-refresh url=, then a window.location.href literal, then a
\* bare open.spotify.com URL, the first success winning.
C7_HeadThenGetThenScan ==
    LET ex == CallsOf("expand")
        r == lastResp.resp
        meta == FirstFragUrl(r.html, {"meta", "metaWs"})
        js == FirstFragUrl(r.html, {"js"})
        bare == FirstFragUrl(r.html, {"bare"})
    IN /\ ex # <<>> => ex[1].method = "HEAD" /\ ex[1].redirect = "manual"
       /\ Len(ex) >= 2 => ex[2].method = "GET" /\ ex[2].redirect = "manual"
       /\ (ExpandJustSettled /\ ~r.threw /\ r.url = <<>>) =>
              expanded = IF meta # <<>> THEN meta
                         ELSE IF js # <<>> THEN js
                         ELSE IF bare # <<>> THEN bare
                         ELSE playlistUrl

\* C7 as amended: a short-link input is expanded by one redirect-following
\* GET; the first of these that yields a URL wins: (a) the final URL of the
\* response, (b) the leftmost open.spotify.com URL of the HTML, be it bare, in
\* a meta-refresh or in a window.location.href literal, (c) the url= of a
\* meta-refresh that (b) does not match.
C7_OneGetThenScan ==
    LET ex == CallsOf("expand")
        r == lastResp.resp
        any == FirstFragUrl(r.html, {"bare", "meta", "js"})
        meta == FirstFragUrl(r.html, {"meta", "metaWs"})
    IN /\ Len(ex) <= 1
       /\ ex # <<>> => ex[1].method = "GET" /\ ex[1].redirect = "follow"
       /\ (ExpandJustSettled /\ ~r.threw) =>
              expanded = IF r.url # <<>> THEN r.url
                         ELSE IF any # <<>> THEN any
                         ELSE IF meta # <<>> THEN meta
                         ELSE playlistUrl

\* C7's case: the HTML holds a bare URL and then a meta-refresh to another
C7_Witness ==
    /\ ExpandJustSettled
    /\ lastResp.resp.url = <<>>
    /\ Len(lastResp.resp.html) = 2
    /\ lastResp.resp.html[1].kind = "bare"
    /\ lastResp.resp.html[2].kind = "meta"
    /\ lastResp.resp.html[1].url # lastResp.resp.html[2].url
    /\ expanded = lastResp.resp.html[1].url

\* C8: expandSpotifyUrl never raises; for a short-link input it returns the
\* input unchanged when the fetch throws or nothing yields a URL; for an
\* unparsable input or a host off the allow-list (exact or www-stripped) it
\* returns the input unchanged without issuing a request.
C8_ExpandFailsSoft ==
    LET r == lastResp.resp
    IN /\ ExpandJustSettled => ~(pc = "done" /\ response.error = NetworkError)
       /\ (/\ ExpandJustSettled
           /\ \/ r.threw
              \/ /\ r.url = <<>>
                 /\ FirstFragUrl(r.html, FragKinds \ {"text"}) = <<>>)
          => expanded = playlistUrl
       /\ (/\ pc # "start"
           /\ \/ ~URLParse(playlistUrl).ok
              \/ ~AllowListed(URLParse(playlistUrl).hostname))
          => expanded = playlistUrl /\ CallsOf("expand") = <<>>

\* C8's case: the fetch of a short link on a "www." host throws
C8_Witness ==
    /\ ExpandJustSettled
    /\ lastResp.resp.threw
    /\ URLParse(playlistUrl).hostname = "www.spoti.fi"
    /\ expanded = playlistUrl
    /\ pc = "oembedWait"

\* neither the URI pattern nor the path pattern finds an id in e
ExtractionFails(e) ==
    /\ ~(Len(e) >= 2 /\ e[1] \in UriPrefix /\ e[2] \in Alnum)
    /\ \/ ~URLParse(e).ok
       \/ ~\E i \in 1..Len(URLParse(e).pathname) :
              HasTokenAt(URLParse(e).pathname, i)

\* the token of the leftmost fragment of html of this kind that has one
FirstFragTok(html, kind) ==
    IF \E i \in DOMAIN html : html[i].kind = kind /\ html[i].tok # <<>>
    THEN html[CHOOSE i \in DOMAIN html :
                  /\ html[i].kind = kind /\ html[i].tok # <<>>
                  /\ \A j \in 1..(i - 1) :
                         ~(html[j].kind = kind /\ html[j].tok # <<>>)].tok
    ELSE <<>>

\* C9: the oEmbed probe is issued only when the path/URI extraction on the
\* expanded URL has failed, and is keyed by the expanded URL; the id is the
\* token of /embed/playlist/<token> if the html has one, else that of
\* spotify:playlist:<token>; if the probe fails, throws or has neither, the
\* request fails with "Could not parse playlist ID".
C9_OEmbedLastResort ==
    LET r == lastResp.resp
        emb == FirstFragTok(r.html, "embed")
        uri == FirstFragTok(r.html, "uri")
    IN /\ \A i \in DOMAIN calls :
              calls[i].kind = "oembed" =>
                  calls[i].key = expanded /\ ExtractionFails(expanded)
       /\ SettledKind = "oembed" =>
              IF r.threw \/ ~r.ok \/ (emb = <<>> /\ uri = <<>>)
              THEN /\ pc = "done"
                   /\ response = ErrorResponse(500, "Could not parse playlist ID")
              ELSE playlistId = IF emb # <<>> THEN emb ELSE uri

\* C9's case: a short link expanded to a URL without an id, and a probe whose
\* html holds a URI and then an embed path
C9_Witness ==
    /\ SettledKind = "oembed"
    /\ playlistUrl = ShortUrl
    /\ calls[lastResp.call].key = AlbumUrl
    /\ Len(lastResp.resp.html) = 2
    /\ lastResp.resp.html[1] = [kind |-> "uri", tok |-> TokB]
    /\ lastResp.resp.html[2] = [kind |-> "embed", tok |-> TokA]
    /\ playlistId = TokA

RECURSIVE Flatten(_)
Flatten(pages) ==
    IF pages = <<>> THEN <<>> ELSE pages[1] \o Flatten(Tail(pages))

\* the track an upstream item stands for
TrackOf(it) == [title |-> it.name, artist |-> Join(it.artists, <<",", " ">>)]

RECURSIVE TracksOf(_)
TracksOf(its) ==
    IF its = <<>> THEN <<>> ELSE <<TrackOf(its[1])>> \o TracksOf(Tail(its))

\* the items of the chain that have a track, a title and a joined artist
ExpectedTracks ==
    TracksOf(SelectSeq(Flatten(upstream),
                       LAMBDA it : /\ it.hasTrack
                                   /\ TrackOf(it).title # <<>>
                                   /\ TrackOf(it).artist # <<>>))

\* fetchAllTracks has returned: its latest page request succeeded and no
\* further request followed
EnumReturned ==
    /\ SettledKind = "page"
    /\ ~SettledBad
    /\ lastResp.call = Len(calls)

\* C10: fetchAllTracks requests every page of the chain, in order, stopping
\* only at the page whose next is empty/absent, and returns exactly the items,
\* in page order and then item order, whose track is non-null and whose title
\* and ", "-joined artist names are non-empty; nothing is deduplicated.
C10_AllPagesInOrder ==
    LET pages == CallsOf("page")
    IN /\ \A i \in DOMAIN pages : pages[i].page = i
       /\ Len(pages) <= Len(upstream)
       /\ EnumReturned =>
              /\ Len(pages) = Len(upstream)
              /\ items = ExpectedTracks

\* C10's case: two pages that hold the same track
C10_Witness ==
    /\ EnumReturned
    /\ upstream = << <<ItemA>>, <<ItemA>> >>
    /\ items = <<TrackOf(ItemA), TrackOf(ItemA)>>

\* C11: cleanTrackTitleForSearch is idempotent: cleaning a cleaned title
\* leaves it unchanged; "Song (Live) - 2019 Remaster" cleans to "Song".
C11_CleanIsIdempotent ==
    (probe.op = "clean" /\ Len(probe.outs) >= 1) =>
        /\ Len(probe.outs) = 2 => probe.outs[2] = probe.outs[1]
        /\ probe.args[1] = <<"S","o","n","g"," ","(","L","i","v","e",")"," ","-"," ","2","0","1","9"," ","R","e","m","a","s","t","e","r">> => probe.outs[1] = Song

\* the arguments of the scorer's call, and the URL it was called on
ScoredTitle == probe.args[1]
ScoredArtist == probe.args[2]
ScoredSub == probe.args[3]
ScoredUrl == BandcampTrackUrl(probe.args[3], probe.args[4])
TitleTokens == normalizeTokens(ScoredTitle)
ArtistTokens == normalizeTokens(BeforeComma(ScoredArtist))
Scored == probe.op = "score" /\ Len(probe.outs) >= 1
HasBanned(u) == \E w \in BannedWords : Includes(u, w)

\* the scorer was called on a cleaned title with a token, an artist with a
\* token, and the track page named by their tokens on the artist's subdomain
OwnSlugScored ==
    /\ Scored
    /\ TitleTokens # <<>>
    /\ ArtistTokens # <<>>
    /\ cleanTrackTitleForSearch(ScoredTitle) = ScoredTitle
    /\ <<probe.args[3], probe.args[4]>> = OwnSlugs(ScoredTitle, ScoredArtist)

\* C12 as stated: for every cleaned title and artist with a token each, the
\* track page https://<artist slug>.bandcamp.com/track/<title slug> scores at
\* least 6.
C12_OwnSlugTrackQualifies == OwnSlugScored => probe.outs[1] >= 6

\* C12 as amended: ... scores at least 6 when that URL holds none of remix,
\* mix, cover, tribute, edit, karaoke.
C12_OwnSlugTrackQualifiesUnlessBanned ==
    (OwnSlugScored /\ ~HasBanned(ScoredUrl)) => probe.outs[1] >= 6

\* C12's case: title "Song", artist "Band", https://band.bandcamp.com/track/song
C12_Witness ==
    /\ OwnSlugScored
    /\ ScoredTitle = Song
    /\ ScoredArtist = Band
    /\ probe.outs[1] = 8

\* C13 as stated: for every title, artist and URL, the URL with "remix" added
\* scores at least 3 lower than the URL without it.
C13_RemixScoresThreeLower ==
    (probe.op = "score" /\ Len(probe.outs) = 2) =>
        probe.outs[2] <= probe.outs[1] - 3

\* the same tokens are found in the URL with "-remix" as in the URL without
SameTokensMatch ==
    LET u == ToLowerCase(ScoredUrl)
        v == u \o <<"-","r","e","m","i","x">>
    IN /\ CountIncluded(TitleTokens, u) = CountIncluded(TitleTokens, v)
       /\ CountIncluded(ArtistTokens, u) = CountIncluded(ArtistTokens, v)

\* C13 as amended: for every title, artist and URL that holds none of remix,
\* mix, cover, tribute, edit, karaoke, the URL with "-remix" added, in which
\* the same tokens match, scores at least 3 lower than the URL without it.
C13_RemixScoresThreeLowerOnce ==
    (/\ probe.op = "score" /\ Len(probe.outs) = 2
     /\ ~HasBanned(ToLowerCase(ScoredUrl))
     /\ SameTokensMatch)
    => probe.outs[2] <= probe.outs[1] - 3

\* C13's case: "Song" by "Band" on band/song scores 8, on band/song-remix 5
C13_Witness ==
    /\ probe.op = "score"
    /\ probe.args = <<Song, Band, <<"b","a","n","d">>, <<"s","o","n","g">>>>
    /\ probe.outs = <<8, 5>>

\* C20: the +3 artist-slug bonus is given only when the subdomain of the URL
\* equals the hyphen-joined tokens of the first comma-delimited artist; a
\* subdomain that only ends with or contains the slug gets none, and later
\* artists add nothing to the score.
C20_SlugBonusNeedsExactSubdomain ==
    Scored =>
        LET u == ToLowerCase(ScoredUrl)
        IN probe.outs[1] =
               2 * CountIncluded(ArtistTokens, u)
               + CountIncluded(TitleTokens, u)
               - (IF HasBanned(u) THEN 3 ELSE 0)
               - (IF \E w \in LiveWords : Includes(u, w) THEN 1 ELSE 0)
               + 2
               + (IF ArtistTokens # <<>>
                     /\ ScoredSub = Join(ArtistTokens, <<"-">>)
                  THEN 3 ELSE 0)

\* searchBandcamp has returned: its arguments, its result, and the score of
\* the i-th URL of the page
BandcampReturned == probe.op = "bandcamp" /\ probe.outs # <<>>
PageUrls == probe.args[3].urls
PageScore(i) ==
    similarityScore(cleanTrackTitleForSearch(probe.args[1]), probe.args[2],
                    PageUrls[i])

C17_DirectIsEarliestBest ==
    (BandcampReturned /\ probe.args[3].ok /\ PageUrls # <<>>) =>
        LET top == CHOOSE i \in DOMAIN PageUrls :
                       /\ \A j \in DOMAIN PageUrls : PageScore(j) <= PageScore(i)
                       /\ \A j \in 1..(i - 1) : PageScore(j) < PageScore(i)
        IN /\ probe.outs[1].direct # <<>> <=> PageScore(top) >= 6
           /\ probe.outs[1].direct # <<>> => probe.outs[1].direct = PageUrls[top]

\* C17's case: two candidates tie at 8 after a lower one; the earlier is
\* returned
C17_Witness ==
    /\ BandcampReturned
    /\ probe.args[1] = LongTitle
    /\ probe.args[2] # Duo
    /\ PageUrls = <<BandcampUrlB, BandcampTrackUrl(<<"m","y","b","a","n","d">>, <<"s","o","n","g">>), BandcampUrlA>>
    /\ PageScore(2) = 8
    /\ PageScore(3) = 8
    /\ probe.outs[1].direct = PageUrls[2]

\* C15: every result row of a success response has a non-empty
\* bandcampSearch and, on the Apple side, a non-empty appleStoreCandidates or
\* a non-null appleWeb.
C15_EveryRowHasBothStores ==
    response.status = 200 =>
        \A i \in DOMAIN response.results :
            LET links == response.results[i].links
            IN /\ links.bandcampSearch # <<>>
               /\ links.appleStoreCandidates # <<>> \/ links.appleWeb # <<>>

\* C16: all 2N store lookups of a playlist of N tracks are issued at once: as
\* soon as the lookups have started, no track's Bandcamp lookup is waiting for
\* another lookup to complete.
C16_AllLookupsIssuedAtOnce ==
    \A t \in DOMAIN tasks : tasks[t].stage # "apple"

\* searchITunesLinks has returned; the results it was given
AppleReturned == probe.op = "apple" /\ probe.outs # <<>>
AppleResults == probe.args[3].results

\* the i-th result names the artist and the cleaned title, in any letter case
Qualifies(i) ==
    /\ Includes(ToLowerCase(AppleResults[i].artistName),
                ToLowerCase(probe.args[2]))
    /\ Includes(ToLowerCase(AppleResults[i].trackName),
                ToLowerCase(cleanTrackTitleForSearch(probe.args[1])))

\* the links of one result: three deep links for a track id and a collection
\* id, one album link for a collection id alone, none otherwise; the track
\* view URL, else the collection view URL, else null
LinksOf(res) ==
    [storeCandidates |->
         IF res.trackId # 0 /\ res.collectionId # 0
         THEN << <<"itms://itunes.apple.com/WebObjects/MZStore.woa/wa/viewAlbum?i=",
                   res.trackId, "&id=", res.collectionId, "&uo=4&app=itunes">>,
                 <<"itms://itunes.apple.com/album/id", res.collectionId, "?i=",
                   res.trackId, "&uo=4&app=itunes">>,
                 <<"itms://itunes.apple.com/WebObjects/MZStore.woa/wa/viewSong?i=",
                   res.trackId, "&uo=4&app=itunes">> >>
         ELSE IF res.collectionId # 0
         THEN << <<"itms://itunes.apple.com/album/id", res.collectionId,
                   "?uo=4&app=itunes">> >>
         ELSE <<>>,
     web |-> IF res.trackViewUrl # <<>> THEN res.trackViewUrl
             ELSE IF res.collectionViewUrl # <<>> THEN res.collectionViewUrl
             ELSE <<>>]

\* C18: searchITunesLinks selects the first result whose artist name holds
\* the query artist and whose track name holds the cleaned title, in any
\* letter case; the first result if none does; for an empty list it returns
\* no candidate and a null web link.
C18_FirstQualifyingElseFirst ==
    (AppleReturned /\ probe.args[3].ok) =>
        LET hits == {i \in DOMAIN AppleResults : Qualifies(i)}
            sel == IF hits # {}
                   THEN CHOOSE i \in hits : \A j \in hits : i <= j
                   ELSE 1
        IN probe.outs[1] = IF AppleResults = <<>>
                           THEN [storeCandidates |-> <<>>, web |-> <<>>]
                           ELSE LinksOf(AppleResults[sel])

\* C18's case: a miss, then a hit in another letter case, then a hit
C18_Witness ==
    /\ AppleReturned
    /\ probe.args[1] = LongTitle
    /\ probe.args[2] = Band
    /\ probe.args[3].ok
    /\ AppleResults = <<AppleMiss, AppleOtherCase, AppleHit>>
    /\ probe.outs[1].web = AppleOtherCase.collectionViewUrl

\* C19: the links of the selected result are three deep links (album+track,
\* album by id, song) for a track id and a collection id, one album link for
\* a collection id alone, none otherwise, also for a track id alone; appleWeb
\* is the track view URL, else the collection view URL, else null.
C19_LinksOfSelectedResult ==
    (AppleReturned /\ probe.args[3].ok /\ Len(AppleResults) = 1) =>
        /\ probe.outs[1] = LinksOf(AppleResults[1])
        /\ Len(probe.outs[1].storeCandidates) \in {0, 1, 3}
        /\ AppleResults[1].trackId # 0 /\ AppleResults[1].collectionId = 0
               => probe.outs[1].storeCandidates = <<>>

\* C19's case: a result with a track id alone
C19_Witness ==
    /\ AppleReturned
    /\ probe.args[3].ok
    /\ AppleResults = <<AppleMiss>>
    /\ probe.outs[1] = [storeCandidates |-> <<>>, web |-> <<>>]

\* C21: a success response has exactly one row per enumerated track, and row
\* i carries the unmodified title and artist of track i in playlist order,
\* whatever the order in which the lookups settled; the cleaned title is used
\* for the searches only.
C21_RowsAreTheTracksInOrder ==
    response.status = 200 =>
        /\ Len(response.results) = Len(ExpectedTracks)
        /\ \A i \in DOMAIN response.results :
               /\ response.results[i].title = ExpectedTracks[i].title
               /\ response.results[i].artist = ExpectedTracks[i].artist

\* C21's case: "Song (Live) - 2019 Remaster" was searched for as "Song", found
\* in the iTunes store, and returned under its full title before "Song"
C21_Witness ==
    /\ response.status = 200
    /\ upstream = << <<ItemL, ItemA>> >>
    /\ response.results[1].title = LongTitle
    /\ cleanTrackTitleForSearch(LongTitle) = Song
    /\ response.results[1].links.appleStoreCandidates # <<>>
    /\ response.results[1].links.bandcampSearch
           = BandcampSearchUrl(LongTitle, TrackOf(ItemL).artist)
    /\ response.results[2].title = Song

\* C22: the blocking steps of POST are strictly ordered: the token request is
\* issued only once a playlist id is resolved, the first track-page request
\* only once the token request has succeeded, each request only once the one
\* before it has settled, and no store lookup before the last track page has
\* been received; a request without playlistUrl is answered with 400 and no
\* outbound call at all.
C22_BlockingStepsInOrder ==
    LET n == Len(calls)
    IN /\ lastResp.call >= n - 1
       /\ \A i \in 1..n :
              /\ calls[i].kind = "token" =>
                     /\ playlistId # <<>>
                     /\ \A j \in 1..(i - 1) : calls[j].kind \in {"expand", "oembed"}
              /\ calls[i].kind = "page" =>
                     /\ i > 1
                     /\ calls[i].page = 1 => calls[i - 1].kind = "token"
                     /\ calls[i].page > 1 =>
                            /\ calls[i - 1].kind = "page"
                            /\ calls[i - 1].page = calls[i].page - 1
       /\ (n > 0 /\ calls[n].kind = "page" /\ lastResp.call = n - 1) =>
              ~lastResp.resp.threw /\ lastResp.resp.ok
       /\ tasks # <<>> =>
              /\ calls[n].kind = "page"
              /\ NextPage(calls[n].page) = 0
              /\ lastResp = [call |-> n, resp |-> Ok]
       /\ playlistUrl = <<>> =>
              /\ calls = <<>>
              /\ tasks = <<>>
              /\ response \in {NoResponse, ErrorResponse(400, "playlistUrl required")}
              /\ pc = "done" => response.status = 400

\* C22's case: a short link is expanded, resolved through oEmbed, the token
\* is obtained, two pages are fetched, and the lookups have started
C22_Witness ==
    /\ playlistUrl = ShortUrl
    /\ [i \in DOMAIN calls |-> calls[i].kind]
           = <<"expand", "oembed", "token", "page", "page">>
    /\ tasks # <<>>
    /\ \E t \in DOMAIN tasks : tasks[t].stage = "apple"

\* the page requests so far, and the page that "next" of page k names
PagesAsked == [i \in DOMAIN CallsOf("page") |-> CallsOf("page")[i].page]
ChainNext(k) == IF k < Len(upstream) THEN k + 1 ELSE lastNext

\* fetchAllTracks was called and has returned or thrown
EnumEnded == PagesAsked # <<>> /\ pc # "pageWait"

\* the latest page request has settled, to r
LastPageSettled == PagesAsked # <<>> /\ lastResp.call = Len(calls)

\* page requests go out one at a time, each for the page the one before it
\* named; a chain of k pages that all succeed takes exactly k requests
OnePageAtATime ==
    /\ pc = "pageWait" => lastResp.call = Len(calls) - 1
    /\ \A i \in DOMAIN PagesAsked :
           PagesAsked[i] = IF i = 1 THEN 1 ELSE ChainNext(PagesAsked[i - 1])
    /\ (lastNext = 0 /\ EnumReturned) => Len(PagesAsked) = Len(upstream)

\* C23: fetchAllTracks issues its page requests strictly one at a time; a
\* chain of k pages that all succeed takes exactly k requests; there is no
\* page limit and no cycle detection: it has terminated if and only if the
\* page fetched last has an empty/absent next or a non-success status.
C23_EndsOnlyAtEndOrBadStatus ==
    /\ OnePageAtATime
    /\ EnumEnded <=>
           /\ LastPageSettled
           /\ ~lastResp.resp.threw
           /\ \/ ~lastResp.resp.ok
              \/ ChainNext(PagesAsked[Len(PagesAsked)]) = 0

\* C23 as amended: ... it has terminated if and only if the page fetched last
\* has an empty/absent next or a non-success status, or its request or the
\* reading of its body failed.
C23_EndsOnlyAtEndOrFailure ==
    /\ OnePageAtATime
    /\ EnumEnded <=>
           /\ LastPageSettled
           /\ \/ lastResp.resp.threw
              \/ ~lastResp.resp.ok
              \/ ChainNext(PagesAsked[Len(PagesAsked)]) = 0

\* C23's case: the second page names the first; both were fetched, the first
\* a second time, and the third request failed
C23_Witness ==
    /\ upstream = << <<ItemA>>, <<ItemB>> >>
    /\ lastNext = 1
    /\ PagesAsked = <<1, 2, 1>>
    /\ items = <<TrackOf(ItemA), TrackOf(ItemB)>>
    /\ EnumEnded
    /\ lastResp.resp.threw

\* C24: Generate cannot start while loading is true, so at most one request
\* is in flight; loading is true from the start of a run until its request
\* settles and false afterwards, on success and on failure; when a run has
\* finished, either error is null and rows holds the results of the response,
\* or error is non-null and rows is empty.
C24_OneRunAtATime ==
    /\ inFlight <= 1
    /\ loading <=> inFlight = 1
    /\ (runs # <<>> /\ ~loading) =>
           \/ /\ runs[Len(runs)] = "rows"
              /\ error = Null
              /\ response.status = 200
              /\ pageRows = response.results
           \/ /\ runs[Len(runs)] = "error"
              /\ error # Null
              /\ pageRows = <<>>

\* C24's case: a run that showed a row was followed by a run that failed
C24_Witness ==
    /\ runs = <<"rows", "error">>
    /\ ~loading
    /\ error = "Failed to get Spotify token"
    /\ pageRows = <<>>

\* what a call of openApple is to try, in this order: its candidates by
\* window.location.assign, then its web fallback, if any, by window.open
PlanOf(c) ==
    [i \in DOMAIN c.candidates |-> [href |-> c.candidates[i], via |-> "assign"]]
    \o (IF c.web # <<>> THEN <<[href |-> c.web, via |-> "open"]>> ELSE <<>>)

\* C25: openApple attempts its candidates strictly in list order, each once
\* and one per step of 800 ms, and opens the web fallback (when non-null) only
\* after every candidate; the step timer is never cancelled, so the attempts
\* go on to the end whether or not an earlier attempt succeeded.
C25_EveryCandidateThenWeb ==
    \A k \in DOMAIN chains :
        LET c == chains[k]
            n == Len(c.opened)
        IN /\ n <= Len(PlanOf(c))
           /\ \A j \in 1..n :
                  /\ c.opened[j].href = PlanOf(c)[j].href
                  /\ c.opened[j].via = PlanOf(c)[j].via
                  /\ c.opened[j].at = (j - 1) * 800
           /\ c.timer # 0 => c.timer = n + 1 /\ n <= Len(c.candidates)
           /\ c.timer = 0 => n = Len(PlanOf(c))

\* C25's case: the first of three candidates opened the store; the other two
\* and the web page were tried all the same
C25_Witness ==
    \E k \in DOMAIN chains :
        /\ Len(chains[k].candidates) = 3
        /\ chains[k].web # <<>>
        /\ Len(chains[k].opened) = 4
        /\ chains[k].opened[1].ok
        /\ chains[k].opened[4].via = "open"
        /\ chains[k].opened[4].at = 2400
        /\ chains[k].timer = 0

====
